---------------------------- MODULE Spec2Model ----------------------------
(***************************************************************************)
(* A model of rich-tea / rich-elm: the list cursor, the tree cursor, the   *)
(* signal bridge (for_signals) and the raw-terminal session (for_stdin,    *)
(* the shared queue and the consumer loop of list_viewer_safe).            *)
(*                                                                         *)
(* Python lists are modelled as sequences; a Python index i (0-based) is   *)
(* the sequence index i + 1.  rich_elm/events.py and rich_tea/events.py    *)
(* hold the same for_stdin / for_signals; the model follows                *)
(* rich_tea/events.py.                                                     *)
(***************************************************************************)
EXTENDS Integers, Sequences, FiniteSets, TLC

\* Bounds of the model.
MaxItems == 5
MaxLeaves == 2
MaxSigs == 2
SessionItems == 2
MaxTyped == 2
MaxSignals == 1
\* the longest run of bump_down calls that is counted
MaxDowns == MaxItems + 1
\* the arguments of saturating_add / saturating_sub: -MaxInt..MaxInt, steps 1..MaxStep
MaxInt == 3
MaxStep == 2
\* options.max_height ranges over -MaxHeight..MaxHeight
MaxHeight == 3
\* the longest text of the text box
MaxText == 3

\* signal.SIGWINCH
SIGWINCH == 28
\* signal.SIGINT
SIGINT == 2

VARIABLES
    items,          \* Cursor.items: a list of Select(item, selected)
    cursor,         \* Cursor.cursor
    listOp,         \* history: the last Cursor operation applied directly, and the state before it
    downs,          \* history: the bump_down calls made in a row from position 0
    tree,           \* TreeCursor.tree: nested TreeData(item, children, collapsed)
    tcursor,        \* TreeCursor.cursor: a list of child indices
    treeOp,         \* history: the last TreeCursor operation and the path before it
    handlers,       \* the process's signal dispositions: signal number -> handler
    old_handlers,   \* for_signals: the dict old_handlers
    sigArgs,        \* for_signals: the tuple *sig
    prevHandlers,   \* history: the dispositions before for_signals was entered
    pcMain,         \* main thread: position in the with statement / consumer loop
    exc,            \* the exception that ended the body ("none" when none)
    result,         \* whether list_viewer_safe returned, and the value it returned
    event,          \* the consumer's local variable event
    renders,        \* number of console.update_screen calls
    hPc,            \* enqueue_signal: position of the handler frame on the main thread
    sigCount,       \* number of signals delivered so far
    die,            \* for_stdin: the flag die
    readerPc,       \* event_thread: position
    readerOut,      \* event_thread: key presses the parser is handing to its callback
    prefix,         \* Vt100Parser: the pending prefix
    stdin,          \* bytes typed and not yet read
    typed,          \* number of keys typed so far
    keyboard,       \* the keys the user may press in this run
    selectorClosed, \* selector.close() has run
    termAttrs,      \* the terminal's attributes (kernel side)
    origAttrs,      \* history: the terminal's attributes before for_stdin
    isatty,         \* stdin is a terminal device
    heap,           \* Python list objects: the attribute lists and their cc lists
    old,            \* for_stdin: old (a reference into heap, 0 when unset)
    new,            \* for_stdin: new (a reference into heap, 0 when unset)
    restoreCount,   \* number of tcsetattr(fileno, TCSAFLUSH, old) calls
    queue,          \* Queue.queue (the deque)
    mutex,          \* Queue.mutex: "free" or the holder
    putLog,         \* history: every item put, in order
    gotLog,         \* history: every item pulled, in order
    delivered,      \* history: a signal was delivered to a blocked consumer
    enqueued,       \* history: a signal was enqueued for a blocked consumer
    sat,            \* saturating_add / saturating_sub applied on their own: arguments and result
    screen,         \* the last render of the list: what was rendered and the rows shown
    fzf,            \* examples/fzf.py: the FuzzyFind state of the session
    view,           \* examples/list_view.py: the ListView state, its last render, the loop's position
    tbox,           \* text_box.py: the TextCursor, and history: the last method called on it and the state before
    fzfOp,          \* history: the last key event the fuzzy finder handled and its state before
    toggled         \* history: the items Tab was pressed on an odd number of times

listVars == <<items, cursor, listOp, downs>>
treeVars == <<tree, tcursor, treeOp>>
signalVars == <<handlers, old_handlers, sigArgs, prevHandlers>>
mainVars == <<pcMain, exc, result, event, renders>>
handlerVars == <<hPc, sigCount>>
readerVars == <<die, readerPc, readerOut, prefix, selectorClosed>>
inputVars == <<stdin, typed, keyboard>>
termVars == <<termAttrs, origAttrs, isatty, heap, old, new, restoreCount>>
queueVars == <<queue, mutex, putLog, gotLog>>
historyVars == <<delivered, enqueued>>
sessionVars == <<mainVars, handlerVars, readerVars, inputVars, termVars,
                 queueVars, historyVars>>
funcVars == <<sat, screen, fzf, view, tbox, fzfOp, toggled>>
vars == <<listVars, treeVars, signalVars, sessionVars, funcVars>>

---------------------------------------------------------------------------
\* util.py

\* an addition that wraps around past max instead of stopping at it
saturating_add_wrapping(i, a, max) ==
    LET sum == i + a IN IF sum > max THEN 0 ELSE sum

saturating_add(i, a, max) ==
    LET sum == i + a IN IF sum > max THEN max ELSE sum

\* a subtraction that does not stop at min
saturating_sub_unclamped(i, s, min) == i - s

saturating_sub(i, s, min) ==
    LET sum == i - s IN IF sum < min THEN min ELSE sum

max_index_off_by_one(l) == Len(l)

max_index(l) == Len(l) - 1

Select(c) == [item |-> c, selected |-> FALSE]

\* a toggle that leaves the flag as it is
Select_toggle_stuck(s) == s

Select_toggle(s) == [s EXCEPT !.selected = ~s.selected]

\* l[i] of a Python list: a negative index counts from the end; the result
\* is the sequence index, which is outside 1..Len(l) when Python raises
\* IndexError.
PyIndex(l, i) == IF i >= 0 THEN i + 1 ELSE Len(l) + i + 1

---------------------------------------------------------------------------
\* saturating_add(i, a, max) and saturating_sub(i, s, min) called on their own
SatArgs(i, bound) == [op |-> "none", i |-> i, bound |-> bound, step |-> 0, out |-> 0]

SaturatingAdd ==
    /\ sat.op = "none"
    /\ \E a \in 1..MaxStep :
          sat' = [sat EXCEPT !.op = "add", !.step = a,
                             !.out = saturating_add(sat.i, a, sat.bound)]
    /\ UNCHANGED <<screen, fzf, view, tbox, fzfOp, toggled, listVars, treeVars, signalVars, sessionVars>>

SaturatingSub ==
    /\ sat.op = "none"
    /\ \E s \in 1..MaxStep :
          sat' = [sat EXCEPT !.op = "sub", !.step = s,
                             !.out = saturating_sub(sat.i, s, sat.bound)]
    /\ UNCHANGED <<screen, fzf, view, tbox, fzfOp, toggled, listVars, treeVars, signalVars, sessionVars>>

---------------------------------------------------------------------------
\* list_select.py: Cursor

Cursor_from_iterable(n) == [k \in 1..n |-> Select(k)]

Cursor_bump_up(its, cur) == saturating_sub(cur, 1, 0)

\* a step of two rows
bump_down_by_two(its, cur) == saturating_add(cur, 2, max_index(its))

Cursor_bump_down(its, cur) == saturating_add(cur, 1, max_index(its))

Cursor_jump_to_top(its, cur) == 0

\* a jump to one past the last item
jump_past_bottom(its, cur) == Len(its)

Cursor_jump_to_bottom(its, cur) == max_index(its)

\* a toggle of the first item, wherever the cursor is
toggle_first(its, cur) == [its EXCEPT ![1] = Select_toggle(@)]

\* state.items[state.cursor].toggle()
Cursor_toggle_current(its, cur) ==
    [its EXCEPT ![PyIndex(its, cur)] = Select_toggle(@)]

\* history of the operations applied to a Cursor: the operation and the
\* state it was applied to
ListOp(op, its, cur) == [op |-> op, items |-> its, cursor |-> cur]

\* history of a run of bump_down calls: fresh at position 0, longer with each
\* bump_down (counted up to MaxDowns), broken by any other operation
FreshRun == [valid |-> TRUE, k |-> 0]
BrokenRun == [valid |-> FALSE, k |-> 0]
LongerRun(r) ==
    IF r.valid THEN [r EXCEPT !.k = IF @ < MaxDowns THEN @ + 1 ELSE @] ELSE r

ListBumpUp ==
    /\ cursor' = Cursor_bump_up(items, cursor)
    /\ listOp' = ListOp("bump_up", items, cursor)
    /\ downs' = BrokenRun
    /\ UNCHANGED <<funcVars, items, treeVars, signalVars, sessionVars>>

ListBumpDown ==
    /\ cursor' = Cursor_bump_down(items, cursor)
    /\ listOp' = ListOp("bump_down", items, cursor)
    /\ downs' = LongerRun(downs)
    /\ UNCHANGED <<funcVars, items, treeVars, signalVars, sessionVars>>

ListJumpToTop ==
    /\ cursor' = Cursor_jump_to_top(items, cursor)
    /\ listOp' = ListOp("jump_to_top", items, cursor)
    /\ downs' = FreshRun
    /\ UNCHANGED <<funcVars, items, treeVars, signalVars, sessionVars>>

ListJumpToBottom ==
    /\ cursor' = Cursor_jump_to_bottom(items, cursor)
    /\ listOp' = ListOp("jump_to_bottom", items, cursor)
    /\ downs' = BrokenRun
    /\ UNCHANGED <<funcVars, items, treeVars, signalVars, sessionVars>>

\* an IndexError (empty list) leaves the state as it is
ListToggleCurrent ==
    /\ PyIndex(items, cursor) \in 1..Len(items)
    /\ items' = Cursor_toggle_current(items, cursor)
    /\ listOp' = ListOp("toggle", items, cursor)
    /\ downs' = BrokenRun
    /\ UNCHANGED <<funcVars, cursor, treeVars, signalVars, sessionVars>>

---------------------------------------------------------------------------
\* list_select.py: ListSelectRender (ListRender and ListViewRender compute
\* the same window)

\* a slice that also yields the range between stop and start when stop < start
islice_either_order(n, start, stop) ==
    LET lo == IF start <= stop THEN start ELSE stop
        hi == IF start <= stop THEN stop ELSE start
        last == IF hi < n THEN hi ELSE n
    IN [error |-> IF start < 0 \/ stop < 0 THEN "ValueError" ELSE "none",
        rows |-> [k \in 1..(IF last > lo THEN last - lo ELSE 0) |-> lo + k - 1]]

\* islice(enumerate(items), start, stop) over n items: the indices it
\* yields; a negative start or stop raises ValueError
islice(n, start, stop) ==
    LET last == IF stop < n THEN stop ELSE n
    IN [error |-> IF start < 0 \/ stop < 0 THEN "ValueError" ELSE "none",
        rows |-> IF start < 0 \/ stop < 0
                 THEN <<>>
                 ELSE [k \in 1..(IF last > start THEN last - start ELSE 0) |->
                          start + k - 1]]

NotRendered ==
    [rendered |-> FALSE, n |-> 0, cursor |-> 0, height |-> 0, start |-> 0,
     rows |-> <<>>, error |-> "none"]

\* a window that starts one row too early once scrolling begins
render_start_one_early(its, cur, max_height) ==
    LET start == IF cur >= max_height THEN cur - max_height ELSE 0
        shown == islice(Len(its), start, start + max_height)
    IN [rendered |-> TRUE, n |-> Len(its), cursor |-> cur,
        height |-> max_height, start |-> start, rows |-> shown.rows,
        error |-> shown.error]

\* __rich_console__: the window of rows added to the table
ListSelectRender(its, cur, max_height) ==
    LET start == IF cur >= max_height THEN (cur - max_height) + 1 ELSE 0
        shown == islice(Len(its), start, start + max_height)
    IN [rendered |-> TRUE, n |-> Len(its), cursor |-> cur,
        height |-> max_height, start |-> start, rows |-> shown.rows,
        error |-> shown.error]

\* the list is rendered into a console of any height
ListRender ==
    /\ \E h \in -MaxHeight..MaxHeight :
          screen' = ListSelectRender(items, cursor, h)
    /\ UNCHANGED <<sat, fzf, view, tbox, fzfOp, toggled, listVars, treeVars, signalVars, sessionVars>>

---------------------------------------------------------------------------
\* tree_select.py: TreeData, TreeCursor

TreeData(item, children, collapsed) ==
    [item |-> item, children |-> children, collapsed |-> collapsed]

leaf(this) == TreeData(this, <<>>, FALSE)

RECURSIVE at(_, _)
at(t, c) ==
    IF c = <<>> THEN t ELSE at(t.children[Head(c) + 1], Tail(c))

\* every index of c is a valid index into the children it is applied to
RECURSIVE ValidPath(_, _)
ValidPath(t, c) ==
    \/ c = <<>>
    \/ /\ Head(c) \in 0..(Len(t.children) - 1)
       /\ ValidPath(t.children[Head(c) + 1], Tail(c))

Front(s) == SubSeq(s, 1, Len(s) - 1)

Last(s) == s[Len(s)]

\* pointee_parent is not None
has_pointee_parent(c) == Len(c) # 0

pointee_parent(t, c) == at(t, Front(c))

TreeCursor_bump_up(t, c) ==
    IF has_pointee_parent(c)
    THEN [c EXCEPT ![Len(c)] = saturating_sub(Last(c), 1, 0)]
    ELSE c

TreeCursor_bump_down(t, c) ==
    IF has_pointee_parent(c)
    THEN [c EXCEPT ![Len(c)] =
            saturating_add(Last(c), 1, max_index(pointee_parent(t, c).children))]
    ELSE c

\* a descent to the last child instead of the first
bump_deeper_to_last(t, c) ==
    IF Len(at(t, c).children) >= 1
    THEN Append(c, max_index(at(t, c).children))
    ELSE c

\* a descent that stops at a collapsed node
bump_deeper_unless_collapsed(t, c) ==
    IF Len(at(t, c).children) >= 1 /\ ~at(t, c).collapsed
    THEN Append(c, 0)
    ELSE c

TreeCursor_bump_deeper(t, c) ==
    IF Len(at(t, c).children) >= 1 THEN Append(c, 0) ELSE c

TreeCursor_bump_shallower(t, c) ==
    IF Len(c) > 1 THEN Front(c) ELSE c

RECURSIVE TreeData_toggle(_, _)
TreeData_toggle(t, c) ==
    IF c = <<>>
    THEN [t EXCEPT !.collapsed = ~t.collapsed]
    ELSE [t EXCEPT !.children[Head(c) + 1] = TreeData_toggle(@, Tail(c))]

\* the paths of all nodes of t
RECURSIVE Paths(_)
Paths(t) ==
    {<<>>} \cup UNION { { <<k - 1>> \o p : p \in Paths(t.children[k]) } :
                        k \in 1..Len(t.children) }

TreeBumpUp ==
    /\ tcursor' = TreeCursor_bump_up(tree, tcursor)
    /\ treeOp' = [op |-> "bump_up", before |-> tcursor]
    /\ UNCHANGED <<funcVars, tree, listVars, signalVars, sessionVars>>

TreeBumpDown ==
    /\ tcursor' = TreeCursor_bump_down(tree, tcursor)
    /\ treeOp' = [op |-> "bump_down", before |-> tcursor]
    /\ UNCHANGED <<funcVars, tree, listVars, signalVars, sessionVars>>

TreeBumpDeeper ==
    /\ tcursor' = TreeCursor_bump_deeper(tree, tcursor)
    /\ treeOp' = [op |-> "bump_deeper", before |-> tcursor]
    /\ UNCHANGED <<funcVars, tree, listVars, signalVars, sessionVars>>

TreeBumpShallower ==
    /\ tcursor' = TreeCursor_bump_shallower(tree, tcursor)
    /\ treeOp' = [op |-> "bump_shallower", before |-> tcursor]
    /\ UNCHANGED <<funcVars, tree, listVars, signalVars, sessionVars>>

TreeToggle ==
    /\ \E p \in Paths(tree) :
          /\ tree' = TreeData_toggle(tree, p)
          /\ treeOp' = [op |-> "toggle", before |-> tcursor, node |-> p]
    /\ UNCHANGED <<funcVars, tcursor, listVars, signalVars, sessionVars>>

\* The example tree of tree_select.py, with MaxLeaves leaves per group.
Leaves(base) == [k \in 1..MaxLeaves |-> leaf(base + k)]

ZenTree ==
    TreeData(0,
        << TreeData(10, Leaves(10), FALSE),
           leaf(20),
           TreeData(30, << TreeData(40, Leaves(40), FALSE) >>, FALSE) >>,
        FALSE)

---------------------------------------------------------------------------
\* events.py: for_signals

Signals == {SIGWINCH, SIGINT}

\* what may be installed for a signal before the scope is entered
PriorHandlers == {"SIG_DFL", "SIG_IGN", "user_handler"}

EmptyDict == [s \in {} |-> "SIG_DFL"]

\* old_handlers = {s: signal.signal(s, enqueue_signal) for s in sig}
\* evaluated left to right: signal.signal returns the handler it replaces,
\* and a key met again overwrites its dict entry.
RECURSIVE install_handlers(_, _, _)
install_handlers(h, olds, sig) ==
    IF sig = <<>>
    THEN [handlers |-> h, old_handlers |-> olds]
    ELSE LET s == Head(sig)
             previous == h[s]
         IN install_handlers([h EXCEPT ![s] = "enqueue_signal"],
                             (s :> previous) @@ olds,
                             Tail(sig))

\* for s, old_handler in old_handlers.items(): signal.signal(s, old_handler)
restore_handlers(h, olds) ==
    [s \in DOMAIN h |-> IF s \in DOMAIN olds THEN olds[s] ELSE h[s]]

Signal(signum) == [type |-> "signal", signum |-> signum]

---------------------------------------------------------------------------
\* termios attribute lists and the terminal

\* bits cleared from new[tty.LFLAG], new[tty.IFLAG], new[tty.OFLAG]
RawLflagOff == {"ECHO", "ICANON", "IEXTEN"}
RawIflagOff == {"IXON", "IXOFF", "ICRNL", "INLCR", "IGNCR", "BRKINT",
                "INPCK", "ISTRIP"}
RawOflagOff == {"OPOST"}

\* terminals the program may be started on
TermConfigs ==
    { [iflag |-> {"ICRNL", "IXON", "BRKINT"}, oflag |-> {"OPOST", "ONLCR"},
       lflag |-> {"ECHO", "ICANON", "IEXTEN", "ISIG"}, cc |-> [VMIN |-> 1]],
      [iflag |-> {"IGNBRK", "IXOFF", "INLCR", "IGNCR", "ISTRIP"}, oflag |-> {},
       lflag |-> {"ECHO", "ICANON", "IEXTEN", "ISIG"}, cc |-> [VMIN |-> 4]] }

\* termios.tcgetattr: a fresh attribute list holding a fresh cc list
tcgetattr(h, term) ==
    LET h1 == Append(h, term.cc)
        obj == [iflag |-> term.iflag, oflag |-> term.oflag,
                lflag |-> term.lflag, cc |-> Len(h1)]
    IN [heap |-> Append(h1, obj), ref |-> Len(h1) + 1]

\* copy.copy: a new outer list that shares the inner cc list
shallow_copy(h, r) == [heap |-> Append(h, h[r]), ref |-> Len(h) + 1]

\* copy.deepcopy: a new outer list and a new cc list
deepcopy(h, r) ==
    LET h1 == Append(h, h[h[r].cc])
    IN [heap |-> Append(h1, [h[r] EXCEPT !.cc = Len(h1)]), ref |-> Len(h1) + 1]

\* raw-mode attributes that keep the cc list as it was
make_raw_keeping_vmin(h, r) ==
    [h EXCEPT ![r] = [@ EXCEPT !.lflag = @ \ RawLflagOff,
                               !.iflag = @ \ RawIflagOff,
                               !.oflag = @ \ RawOflagOff]]

\* new[tty.LFLAG] &= ~(...); new[tty.IFLAG] &= ~(...); new[tty.OFLAG] &= ~(...);
\* new[tty.CC][termios.VMIN] = 1
make_raw(h, r) ==
    LET h1 == [h EXCEPT ![r] = [@ EXCEPT !.lflag = @ \ RawLflagOff,
                                         !.iflag = @ \ RawIflagOff,
                                         !.oflag = @ \ RawOflagOff]]
    IN [h1 EXCEPT ![h1[r].cc] = [@ EXCEPT !.VMIN = 1]]

\* the attributes termios.tcsetattr hands to the terminal
attrs_of(h, r) ==
    [iflag |-> h[r].iflag, oflag |-> h[r].oflag, lflag |-> h[r].lflag,
     cc |-> h[h[r].cc]]

---------------------------------------------------------------------------
\* prompt_toolkit's Vt100Parser, as for_stdin drives it: one character per
\* feed, never flushed.  Characters are named by strings.

\* bytes.decode("utf-8") of one byte read from stdin
Chr == (27 :> "ESC") @@ (91 :> "[") @@ (65 :> "A") @@ (66 :> "B") @@
       (9 :> "TAB") @@ (13 :> "CR") @@ (1 :> "SOH") @@ (120 :> "x") @@
       (113 :> "q") @@ (21 :> "NAK") @@ (127 :> "DEL")

decode(b) == IF b < 128 THEN Chr[b] ELSE "UnicodeDecodeError"

\* the entries of ANSI_SEQUENCES the model's keyboard can produce
ANSI_SEQUENCES ==
    { [seq |-> <<"ESC">>, key |-> "Escape"],
      [seq |-> <<"ESC", "[", "A">>, key |-> "Up"],
      [seq |-> <<"ESC", "[", "B">>, key |-> "Down"],
      [seq |-> <<"SOH">>, key |-> "ControlA"],
      [seq |-> <<"TAB">>, key |-> "ControlI"],
      [seq |-> <<"CR">>, key |-> "ControlM"],
      [seq |-> <<"NAK">>, key |-> "ControlU"],
      [seq |-> <<"DEL">>, key |-> "ControlH"] }

KeyPress(key, is_keys) == [type |-> "key", key |-> key, is_keys |-> is_keys]

\* p[:i] and p[i:] of a Python string
PySliceTo(p, i) == SubSeq(p, 1, IF i > Len(p) THEN Len(p) ELSE i)
PySliceFrom(p, i) == SubSeq(p, (IF i > Len(p) THEN Len(p) ELSE i) + 1, Len(p))

IsStrictPrefix(p, s) == Len(p) < Len(s) /\ SubSeq(s, 1, Len(p)) = p

\* _cpr_response_prefix_re and _mouse_event_prefix_re: ESC [ followed by
\* digits and semicolons
CsiPrefix(p) ==
    /\ Len(p) >= 2
    /\ p[1] = "ESC" /\ p[2] = "["
    /\ \A k \in 3..Len(p) : p[k] \in {"0", "1", "2", "3", "4", "5", "6", "7",
                                      "8", "9", ";"}

\* a decoder that never waits for the rest of a sequence
is_prefix_never(p) == FALSE

\* _IsPrefixOfLongerMatchCache: whether more characters could still
\* complete a longer sequence
is_prefix_of_longer_match(p) ==
    \/ CsiPrefix(p)
    \/ \E e \in ANSI_SEQUENCES : IsStrictPrefix(p, e.seq)

\* Vt100Parser._get_match: "None" when there is none
get_match(p) ==
    IF \E e \in ANSI_SEQUENCES : e.seq = p
    THEN (CHOOSE e \in ANSI_SEQUENCES : e.seq = p).key
    ELSE "None"

\* Vt100Parser._call_handler: the key presses handed to feed_key_callback
call_handler(key, is_keys) == <<KeyPress(key, is_keys)>>

\* for i in range(len(prefix), 0, -1): ... (the loop has no break)
RECURSIVE shift_loop(_, _, _, _)
shift_loop(i, p, out, found) ==
    IF i = 0
    THEN [prefix |-> p, out |-> out, found |-> found]
    ELSE LET m == get_match(PySliceTo(p, i))
         IN IF m # "None"
            THEN shift_loop(i - 1, PySliceFrom(p, i),
                            out \o call_handler(m, TRUE), TRUE)
            ELSE shift_loop(i - 1, p, out, found)

\* one pass of _input_parser_generator after a character was appended,
\* repeated while retry is set
RECURSIVE input_parser(_, _)
input_parser(p, out) ==
    IF p = <<>>
    THEN [prefix |-> p, out |-> out]
    ELSE LET longer == is_prefix_of_longer_match(p)
             match == get_match(p)
         IN IF ~longer /\ match # "None"
            THEN [prefix |-> <<>>, out |-> out \o call_handler(match, TRUE)]
            ELSE IF ~longer
            THEN LET r == shift_loop(Len(p), p, out, FALSE)
                 IN IF r.found
                    THEN input_parser(r.prefix, r.out)
                    ELSE input_parser(Tail(p),
                                      out \o call_handler(Head(p), FALSE))
            ELSE [prefix |-> p, out |-> out]

\* parser.feed(c) for a single character c
Parser_feed(p, c) == input_parser(Append(p, c), <<>>)

\* the bytes a key of the keyboard sends
KeyBytes(k) ==
    CASE k = "Down" -> <<27, 91, 66>>
      [] k = "Tab" -> <<9>>
      [] k = "Enter" -> <<13>>
      [] k = "ControlA" -> <<1>>
      [] k = "x" -> <<120>>
      [] k = "Up" -> <<27, 91, 65>>
      [] k = "ControlU" -> <<21>>
      [] k = "Backspace" -> <<127>>
      [] k = "q" -> <<113>>
      [] k = "Escape" -> <<27>>
      [] k = "EAcute" -> <<195, 169>>

\* the keys typed in a session
SessionKeys == {"Down", "Tab", "Enter", "ControlA", "x"}

\* the keys typed in a session that exercises the decoder: an arrow key, a
\* lone Escape, a character that takes two bytes in UTF-8
ReaderKeys == {"Up", "Escape", "EAcute", "Enter", "x"}

---------------------------------------------------------------------------
\* queue.Queue: _put is deque.append, _get is deque.popleft, both run with
\* Queue.mutex held

Queue_put_left(q, item) == <<item>> \o q

Queue_put(q, item) == Append(q, item)

Queue_get_right(q) == [item |-> Last(q), queue |-> Front(q)]

Queue_get(q) == [item |-> Head(q), queue |-> Tail(q)]

---------------------------------------------------------------------------
\* The session: list_viewer_safe (list_select.py) inside
\*   with ..., events.for_signals(SIGWINCH, queue=queue), events.for_stdin(queue=queue)
\* The main thread runs the with statement and the consumer loop; a signal
\* handler runs on the main thread, on top of whatever it was doing, and the
\* main thread goes on only when the handler has returned.

\* a main thread that also handles the event it pulled last once more while
\* it is about to pull the next
MainAt_or_again(pc) ==
    /\ hPc = "none"
    /\ \/ pcMain = pc
       \/ pc = "handle" /\ pcMain = "get" /\ event.type = "key"

MainAt(pc) == pcMain = pc /\ hPc = "none"

\* positions of the main thread inside the body of the with statement
BodyPcs == {"body", "get", "get_locked", "get_wait", "handle"}

\* for_signals up to its yield (events.py:104-109)
EnterSignals(next) ==
    /\ MainAt("start")
    /\ LET r == install_handlers(handlers, EmptyDict, sigArgs)
       IN /\ handlers' = r.handlers
          /\ old_handlers' = r.old_handlers
    /\ pcMain' = next
    /\ UNCHANGED <<funcVars, sigArgs, prevHandlers, exc, result, event, renders,
                   handlerVars, readerVars, inputVars, termVars, queueVars,
                   historyVars, listVars, treeVars>>

SessionEnterSignals == EnterSignals("for_stdin")

\* for_stdin: die = False ... event_thread.start() (events.py:24-44)
StartReader ==
    /\ MainAt("for_stdin")
    /\ die' = FALSE
    /\ readerPc' = "loop"
    /\ pcMain' = "tcgetattr"
    /\ UNCHANGED <<funcVars, exc, result, event, renders, handlerVars, readerOut,
                   prefix, selectorClosed, inputVars, termVars, queueVars,
                   historyVars, listVars, treeVars, signalVars>>

\* old = termios.tcgetattr(fileno); new = deepcopy(old); new[...] ... (events.py:46-81)
BuildRaw ==
    /\ MainAt("tcgetattr")
    /\ isatty
    /\ LET g == tcgetattr(heap, termAttrs)
           d == deepcopy(g.heap, g.ref)
       IN /\ old' = g.ref
          /\ new' = d.ref
          /\ heap' = make_raw(d.heap, d.ref)
    /\ pcMain' = "tcsetattr"
    /\ UNCHANGED <<funcVars, exc, result, event, renders, handlerVars, readerVars,
                   inputVars, termAttrs, origAttrs, isatty, restoreCount, queueVars,
                   historyVars, listVars, treeVars, signalVars>>

\* old = termios.tcgetattr(fileno) on a stdin that is not a terminal raises
\* termios.error out of for_stdin, before its try statement (events.py:46)
TcgetattrFails ==
    /\ MainAt("tcgetattr")
    /\ ~isatty
    /\ exc' = "termios.error"
    /\ pcMain' = "signals_exit"
    /\ UNCHANGED <<funcVars, result, event, renders, handlerVars, readerVars,
                   inputVars, termVars, queueVars, historyVars, listVars,
                   treeVars, signalVars>>

\* termios.tcsetattr(fileno, termios.TCSANOW, new) (events.py:83)
ApplyRaw ==
    /\ MainAt("tcsetattr")
    /\ termAttrs' = attrs_of(heap, new)
    /\ pcMain' = "closing"
    /\ UNCHANGED <<funcVars, exc, result, event, renders, handlerVars, readerVars,
                   inputVars, origAttrs, isatty, heap, old, new, restoreCount,
                   queueVars, historyVars, listVars, treeVars, signalVars>>

\* with closing(selector): try: yield (events.py:85-87), which enters the
\* body of the with statement
EnterScope ==
    /\ MainAt("closing")
    /\ pcMain' = "body"
    /\ UNCHANGED <<funcVars, exc, result, event, renders, handlerVars, readerVars,
                   inputVars, termVars, queueVars, historyVars, listVars,
                   treeVars, signalVars>>

\* positions of the main thread in for_stdin before its try statement
SetupPcs == {"for_stdin", "tcgetattr", "tcsetattr", "closing"}

\* SIGINT under Python's default handler while for_stdin is still setting
\* up: KeyboardInterrupt leaves for_stdin before its try statement, so no
\* finally clause of for_stdin runs; the with statement then leaves
\* for_signals, which had been entered.
SetupInterrupt ==
    /\ pcMain \in SetupPcs /\ hPc = "none"
    /\ exc' = "KeyboardInterrupt"
    /\ pcMain' = "signals_exit"
    /\ UNCHANGED <<funcVars, result, event, renders, handlerVars, readerVars,
                   inputVars, termVars, queueVars, historyVars, listVars,
                   treeVars, signalVars>>

\* list_viewer: list_viewer_safe(candidates).value_or(None), where
\* @safe(exceptions=(KeyboardInterrupt,)) turns a KeyboardInterrupt into a
\* Failure and lets any other exception through
list_viewer(e, r) ==
    IF e = "none" THEN [raised |-> "none", value |-> r.value]
    ELSE IF e = "KeyboardInterrupt" THEN [raised |-> "none", value |-> "None"]
    ELSE [raised |-> e, value |-> "None"]

\* console.update_screen(ListSelectRender(state))  # Initial display
InitialRender ==
    /\ MainAt("body")
    /\ renders' = renders + 1
    /\ pcMain' = "get"
    /\ UNCHANGED <<funcVars, exc, result, event, handlerVars, readerVars, inputVars,
                   termVars, queueVars, historyVars, listVars, treeVars,
                   signalVars>>

\* queue.get(): with self.not_empty: (takes Queue.mutex)
GetAcquire ==
    /\ MainAt("get")
    /\ mutex = "free"
    /\ mutex' = "main"
    /\ pcMain' = "get_locked"
    /\ UNCHANGED <<funcVars, exc, result, event, renders, handlerVars, readerVars,
                   inputVars, termVars, queue, putLog, gotLog, historyVars,
                   listVars, treeVars, signalVars>>

\* queue.get(): while not self._qsize(): self.not_empty.wait()  (gives the
\* mutex up while waiting)
GetWait ==
    /\ MainAt("get_locked")
    /\ queue = <<>>
    /\ mutex' = "free"
    /\ pcMain' = "get_wait"
    /\ UNCHANGED <<funcVars, exc, result, event, renders, handlerVars, readerVars,
                   inputVars, termVars, queue, putLog, gotLog, historyVars,
                   listVars, treeVars, signalVars>>

\* queue.get(): wait() returns, notified by a put, with the mutex taken again
GetWake ==
    /\ MainAt("get_wait")
    /\ queue # <<>>
    /\ mutex = "free"
    /\ mutex' = "main"
    /\ pcMain' = "get_locked"
    /\ UNCHANGED <<funcVars, exc, result, event, renders, handlerVars, readerVars,
                   inputVars, termVars, queue, putLog, gotLog, historyVars,
                   listVars, treeVars, signalVars>>

\* queue.get(): item = self._get(); return item  (releases the mutex)
GetItem ==
    /\ MainAt("get_locked")
    /\ queue # <<>>
    /\ LET g == Queue_get(queue)
       IN /\ event' = g.item
          /\ queue' = g.queue
          /\ gotLog' = Append(gotLog, g.item)
    /\ mutex' = "free"
    /\ pcMain' = "handle"
    /\ delivered' = IF delivered = "armed" THEN "pulled" ELSE "none"
    /\ enqueued' = IF enqueued = "armed" THEN "pulled" ELSE "none"
    /\ UNCHANGED <<funcVars, exc, result, renders, handlerVars, readerVars, inputVars,
                   termVars, putLog, listVars, treeVars, signalVars>>

\* if isinstance(event, Signal): console.update_screen(...)  # Redraw on resize
HandleSignal ==
    /\ MainAt("handle")
    /\ event.type = "signal"
    /\ renders' = renders + 1
    /\ pcMain' = "get"
    /\ delivered' = "none"
    /\ enqueued' = "none"
    /\ UNCHANGED <<funcVars, exc, result, event, handlerVars, readerVars, inputVars,
                   termVars, queueVars, listVars, treeVars, signalVars>>

\* the Keys branches that change the state, then console.update_screen(...)
\* (list_select.py:204-214, 223); Keys.Tab is Keys.ControlI
MappedKeys == {"Up", "Left", "Down", "Right", "ControlI", "Home", "End"}

\* history: the items counted an odd number of times, after one more count
\* of item c
OddOnceMore(odd, c) == IF c \in odd THEN odd \ {c} ELSE odd \cup {c}

HandleKey ==
    /\ MainAt("handle")
    /\ event.type = "key" /\ event.is_keys
    /\ event.key \in MappedKeys
    /\ event.key = "ControlI" => PyIndex(items, cursor) \in 1..Len(items)
    /\ cursor' = CASE event.key \in {"Up", "Left"} -> Cursor_bump_up(items, cursor)
                   [] event.key \in {"Down", "Right"} -> Cursor_bump_down(items, cursor)
                   [] event.key = "Home" -> Cursor_jump_to_top(items, cursor)
                   [] event.key = "End" -> Cursor_jump_to_bottom(items, cursor)
                   [] OTHER -> cursor
    /\ items' = IF event.key = "ControlI"
                THEN Cursor_toggle_current(items, cursor)
                ELSE items
    /\ toggled' = IF event.key = "ControlI"
                  THEN OddOnceMore(toggled, items[PyIndex(items, cursor)].item)
                  ELSE toggled
    /\ renders' = renders + 1
    /\ pcMain' = "get"
    /\ delivered' = "none"
    /\ enqueued' = "none"
    /\ UNCHANGED <<sat, screen, fzf, view, tbox, fzfOp, listOp, downs, exc, result, event, handlerVars, readerVars,
                   inputVars, termVars, queueVars, treeVars, signalVars>>

\* Keys.Enter (Keys.ControlM), or the character "q": return the selected items
HandleReturn ==
    /\ MainAt("handle")
    /\ event.type = "key"
    /\ \/ event.is_keys /\ event.key = "ControlM"
       \/ ~event.is_keys /\ event.key = "q"
    /\ result' = [returned |-> TRUE,
                  value |-> { items[k].item :
                                k \in { j \in 1..Len(items) : items[j].selected } }]
    /\ pcMain' = "die"
    /\ delivered' = "none"
    /\ enqueued' = "none"
    /\ UNCHANGED <<funcVars, exc, event, renders, handlerVars, readerVars, inputVars,
                   termVars, queueVars, listVars, treeVars, signalVars>>

\* any other Keys member: raise NotImplementedError(event)
HandleUnmapped ==
    /\ MainAt("handle")
    /\ event.type = "key" /\ event.is_keys
    /\ event.key \notin MappedKeys \cup {"ControlM"}
    /\ exc' = "NotImplementedError"
    /\ pcMain' = "restore"
    /\ delivered' = "none"
    /\ enqueued' = "none"
    /\ UNCHANGED <<funcVars, result, event, renders, handlerVars, readerVars, inputVars,
                   termVars, queueVars, listVars, treeVars, signalVars>>

\* any other character: nothing happens and the loop goes on
HandleIgnored ==
    /\ MainAt("handle")
    /\ event.type = "key" /\ ~event.is_keys
    /\ event.key # "q"
    /\ pcMain' = "get"
    /\ delivered' = "none"
    /\ enqueued' = "none"
    /\ UNCHANGED <<funcVars, exc, result, event, renders, handlerVars, readerVars,
                   inputVars, termVars, queueVars, listVars, treeVars,
                   signalVars>>

\* SIGINT under Python's default handler: KeyboardInterrupt is raised in the
\* main thread, here anywhere in the body.  Leaving queue.get() the with
\* statement of the queue gives the mutex back (Condition.wait takes it again
\* first).
KeyboardInterrupt ==
    /\ pcMain \in BodyPcs /\ hPc = "none"
    /\ pcMain = "get_wait" => mutex = "free"
    /\ mutex' = IF pcMain = "get_locked" THEN "free" ELSE mutex
    /\ exc' = "KeyboardInterrupt"
    /\ pcMain' = "restore"
    /\ UNCHANGED <<funcVars, result, event, renders, handlerVars, readerVars, inputVars,
                   termVars, queue, putLog, gotLog, historyVars, listVars,
                   treeVars, signalVars>>

\* after the yield: die = True  # Tell the thread to die (events.py:90)
SetDie ==
    /\ MainAt("die")
    /\ die' = TRUE
    /\ pcMain' = "join"
    /\ UNCHANGED <<funcVars, exc, result, event, renders, handlerVars, readerPc,
                   readerOut, prefix, selectorClosed, inputVars, termVars,
                   queueVars, historyVars, listVars, treeVars, signalVars>>

\* positions of a reader thread that has ended: parse() returned, or raised
ReaderEnded == {"dead", "raised"}

\* event_thread.join() (events.py:91)
Join ==
    /\ MainAt("join")
    /\ readerPc \in ReaderEnded
    /\ pcMain' = "restore"
    /\ UNCHANGED <<funcVars, exc, result, event, renders, handlerVars, readerVars,
                   inputVars, termVars, queueVars, historyVars, listVars,
                   treeVars, signalVars>>

\* finally: termios.tcsetattr(fileno, termios.TCSAFLUSH, old) (events.py:92-94);
\* TCSAFLUSH discards the input that was received and not yet read
Restore ==
    /\ MainAt("restore")
    /\ termAttrs' = attrs_of(heap, old)
    /\ stdin' = <<>>
    /\ restoreCount' = restoreCount + 1
    /\ pcMain' = "close"
    /\ UNCHANGED <<funcVars, exc, result, event, renders, handlerVars, readerVars,
                   typed, keyboard, origAttrs, isatty, heap, old, new, queueVars,
                   historyVars, listVars, treeVars, signalVars>>

\* with closing(selector): on the way out, selector.close() (events.py:85)
CloseSelector ==
    /\ MainAt("close")
    /\ selectorClosed' = TRUE
    /\ pcMain' = "signals_exit"
    /\ UNCHANGED <<funcVars, exc, result, event, renders, handlerVars, die, readerPc,
                   readerOut, prefix, inputVars, termVars, queueVars,
                   historyVars, listVars, treeVars, signalVars>>

\* for_signals: finally: signal.signal(s, old_handler) for each entry
\* (events.py:110-112)
ExitSignals ==
    /\ MainAt("signals_exit")
    /\ handlers' = restore_handlers(handlers, old_handlers)
    /\ pcMain' = "done"
    /\ UNCHANGED <<funcVars, old_handlers, sigArgs, prevHandlers, exc, result, event,
                   renders, handlerVars, readerVars, inputVars, termVars,
                   queueVars, historyVars, listVars, treeVars>>

---------------------------------------------------------------------------
\* enqueue_signal, run on the main thread when SIGWINCH is delivered

\* the signal arrives and Python calls enqueue_signal(signum, frame)
DeliverSignal ==
    /\ hPc = "none"
    /\ pcMain # "done"
    /\ handlers[SIGWINCH] = "enqueue_signal"
    /\ sigCount < MaxSignals
    /\ sigCount' = sigCount + 1
    /\ hPc' = "put"
    /\ delivered' = IF pcMain = "get_wait" /\ queue = <<>>
                    THEN "armed" ELSE delivered
    /\ UNCHANGED <<funcVars, enqueued, mainVars, readerVars, inputVars, termVars,
                   queueVars, listVars, treeVars, signalVars>>

\* queue.put(Signal(signum)): with self.not_full: (takes Queue.mutex)
HandlerAcquire ==
    /\ hPc = "put"
    /\ mutex = "free"
    /\ mutex' = "handler"
    /\ hPc' = "put_locked"
    /\ UNCHANGED <<funcVars, sigCount, mainVars, readerVars, inputVars, termVars, queue,
                   putLog, gotLog, historyVars, listVars, treeVars, signalVars>>

\* queue.put(Signal(signum)): self._put(item); notify; release; return
HandlerEnqueue ==
    /\ hPc = "put_locked"
    /\ queue' = Queue_put(queue, Signal(SIGWINCH))
    /\ putLog' = Append(putLog, Signal(SIGWINCH))
    /\ mutex' = "free"
    /\ hPc' = "none"
    /\ enqueued' = IF pcMain = "get_wait" /\ queue = <<>>
                   THEN "armed" ELSE enqueued
    /\ UNCHANGED <<funcVars, delivered, sigCount, gotLog, mainVars, readerVars,
                   inputVars, termVars, listVars, treeVars, signalVars>>

---------------------------------------------------------------------------
\* event_thread: parse() (events.py:30-41)

\* while not die:
ReaderLoop ==
    /\ readerPc = "loop"
    /\ readerPc' = IF die THEN "dead" ELSE "select"
    /\ UNCHANGED <<funcVars, die, readerOut, prefix, selectorClosed, mainVars,
                   handlerVars, inputVars, termVars, queueVars, historyVars,
                   listVars, treeVars, signalVars>>

\* selector.select on a closed selector raises ValueError, which ends the loop
ReaderClosed ==
    /\ readerPc = "select"
    /\ selectorClosed
    /\ readerPc' = "dead"
    /\ UNCHANGED <<funcVars, die, readerOut, prefix, selectorClosed, mainVars,
                   handlerVars, inputVars, termVars, queueVars, historyVars,
                   listVars, treeVars, signalVars>>

\* selector.select(timeout=0.002) returns nothing
ReaderTimeout ==
    /\ readerPc = "select"
    /\ ~selectorClosed
    /\ stdin = <<>>
    /\ readerPc' = "loop"
    /\ UNCHANGED <<funcVars, die, readerOut, prefix, selectorClosed, mainVars,
                   handlerVars, inputVars, termVars, queueVars, historyVars,
                   listVars, treeVars, signalVars>>

\* selector.select(timeout=0.002) reports stdin readable
ReaderSelect ==
    /\ readerPc = "select"
    /\ ~selectorClosed
    /\ stdin # <<>>
    /\ readerPc' = "read"
    /\ UNCHANGED <<funcVars, die, readerOut, prefix, selectorClosed, mainVars,
                   handlerVars, inputVars, termVars, queueVars, historyVars,
                   listVars, treeVars, signalVars>>

\* parser.feed(os.read(fileno, 1).decode("utf-8")); os.read blocks while
\* there is nothing to read.  A UnicodeDecodeError is a ValueError whose
\* args are not those of the closed selector, so parse() raises it again
\* (events.py:36-41) and the thread ends with that exception.
ReaderRead ==
    /\ readerPc = "read"
    /\ stdin # <<>>
    /\ LET c == decode(Head(stdin))
           r == Parser_feed(prefix, c)
       IN IF c = "UnicodeDecodeError"
          THEN /\ readerPc' = "raised"
               /\ UNCHANGED <<prefix, readerOut>>
          ELSE /\ prefix' = r.prefix
               /\ readerOut' = r.out
               /\ readerPc' = IF r.out = <<>> THEN "loop" ELSE "put"
    /\ stdin' = Tail(stdin)
    /\ UNCHANGED <<funcVars, die, selectorClosed, typed, keyboard, mainVars, handlerVars,
                   termVars, queueVars, historyVars, listVars, treeVars,
                   signalVars>>

\* feed_key_callback: queue.put(key_press): with self.not_full:
ReaderPutAcquire ==
    /\ readerPc = "put"
    /\ mutex = "free"
    /\ mutex' = "reader"
    /\ readerPc' = "put_locked"
    /\ UNCHANGED <<funcVars, die, readerOut, prefix, selectorClosed, mainVars,
                   handlerVars, inputVars, termVars, queue, putLog, gotLog,
                   historyVars, listVars, treeVars, signalVars>>

\* queue.put(key_press): self._put(item); notify; release; return
ReaderPutItem ==
    /\ readerPc = "put_locked"
    /\ queue' = Queue_put(queue, Head(readerOut))
    /\ putLog' = Append(putLog, Head(readerOut))
    /\ mutex' = "free"
    /\ readerOut' = Tail(readerOut)
    /\ readerPc' = IF Tail(readerOut) = <<>> THEN "loop" ELSE "put"
    /\ UNCHANGED <<funcVars, die, prefix, selectorClosed, gotLog, mainVars,
                   handlerVars, inputVars, termVars, historyVars, listVars,
                   treeVars, signalVars>>

\* the user presses a key
TypeKey ==
    /\ typed < MaxTyped
    /\ pcMain # "done"
    /\ \E k \in keyboard : stdin' = stdin \o KeyBytes(k)
    /\ typed' = typed + 1
    /\ UNCHANGED <<funcVars, keyboard, mainVars, handlerVars, readerVars, termVars, queueVars,
                   historyVars, listVars, treeVars, signalVars>>

---------------------------------------------------------------------------
\* for_signals on its own: any tuple of signals, a body that returns or raises

SignalsEnter == EnterSignals("sig_body")

SignalsBodyReturn ==
    /\ MainAt("sig_body")
    /\ pcMain' = "signals_exit"
    /\ UNCHANGED <<funcVars, exc, result, event, renders, handlerVars, readerVars,
                   inputVars, termVars, queueVars, historyVars, listVars,
                   treeVars, signalVars>>

SignalsBodyRaise ==
    /\ MainAt("sig_body")
    /\ exc' = "Exception"
    /\ pcMain' = "signals_exit"
    /\ UNCHANGED <<funcVars, result, event, renders, handlerVars, readerVars,
                   inputVars, termVars, queueVars, historyVars, listVars,
                   treeVars, signalVars>>

---------------------------------------------------------------------------
\* Specifications

\* Python's dispositions at start-up
DefaultHandlers ==
    [s \in Signals |-> IF s = SIGINT THEN "default_int_handler" ELSE "SIG_DFL"]

\* the sequences over S of length at most n
SeqsUpTo(S, n) == UNION { [1..k -> S] : k \in 0..n }

ListIdle ==
    /\ items = <<>> /\ cursor = 0
    /\ listOp = ListOp("none", items, cursor) /\ downs = FreshRun

TreeIdle ==
    /\ tree = leaf(0) /\ tcursor = <<>>
    /\ treeOp = [op |-> "none", before |-> <<>>]

SignalIdle ==
    /\ handlers = DefaultHandlers
    /\ prevHandlers = DefaultHandlers
    /\ old_handlers = EmptyDict
    /\ sigArgs = <<SIGWINCH>>

---------------------------------------------------------------------------
\* examples/fzf.py: the fuzzy finder's state and its event loop

\* FuzzyFind(haystack=list(candidates))
FuzzyFind(haystack) ==
    [haystack |-> haystack, selected |-> {}, needle |-> <<>>, cursor |-> 0]

\* the candidates of the model's finder: words of one character each
FzfHaystack == <<"q", "x">>

\* fuzzywuzzy's ratio(s1, s2) for a word s1 of one character: 0 when a
\* string is empty, else round(100 * 2 * M / T) with M the number of
\* matching characters and T the total length
ratio(w, needle) ==
    IF needle = <<>> THEN 0
    ELSE LET M == IF \E i \in 1..Len(needle) : needle[i] = w THEN 1 ELSE 0
             T == 1 + Len(needle)
         IN (2 * 100 * M + T \div 2) \div T

\* FuzzyFind.list_select: the haystack as Select items, sorted by ratio
\* against the needle, best first; sorted() is stable, so equal ratios keep
\* the haystack's order
FuzzyFind_list_select(state) ==
    LET ws == state.haystack
        n == Len(ws)
        before(j, i) ==
            \/ ratio(ws[j], state.needle) > ratio(ws[i], state.needle)
            \/ ratio(ws[j], state.needle) = ratio(ws[i], state.needle) /\ j < i
        rank(i) == Cardinality({ j \in 1..n : before(j, i) }) + 1
    IN [r \in 1..n |->
           LET w == ws[CHOOSE i \in 1..n : rank(i) = r]
           IN [item |-> w, selected |-> w \in state.selected]]

\* the Keys branches that change the state (fzf.py:94-109); Keys.Tab is
\* Keys.ControlI and Keys.Backspace is Keys.ControlH
FzfMappedKeys == {"Up", "Down", "ControlI", "ControlU", "ControlH"}

\* needle[:-1]
DropLast(needle) ==
    IF needle = <<>> THEN needle ELSE SubSeq(needle, 1, Len(needle) - 1)

\* a Tab that takes the item at the cursor from the haystack as it was given
FuzzyFind_toggle_unranked(state) ==
    LET item == state.haystack[PyIndex(state.haystack, state.cursor)]
    IN [state EXCEPT !.selected =
           IF item \in state.selected
           THEN state.selected \ {item}
           ELSE state.selected \cup {item}]

\* Keys.Tab: item = state.list_select.current().item, removed from
\* state.selected if it is in it and added if it is not
FuzzyFind_toggle(state) ==
    LET l == FuzzyFind_list_select(state)
        item == l[PyIndex(l, state.cursor)].item
    IN [state EXCEPT !.selected =
           IF item \in state.selected
           THEN state.selected \ {item}
           ELSE state.selected \cup {item}]

\* state.needle += event.key
FuzzyFind_str(state, char) == [state EXCEPT !.needle = Append(state.needle, char)]

\* the state after one of the mapped keys
FuzzyFind_key(state, key) ==
    CASE key = "Up" ->
            [state EXCEPT !.cursor = saturating_sub(state.cursor, 1, 0)]
      [] key = "Down" ->
            [state EXCEPT !.cursor =
                saturating_add(state.cursor, 1, max_index(state.haystack))]
      [] key = "ControlI" -> FuzzyFind_toggle(state)
      [] key = "ControlU" -> [state EXCEPT !.needle = <<>>]
      [] key = "ControlH" -> [state EXCEPT !.needle = DropLast(state.needle)]

\* a Signal: console.update_screen(FuzzyFindRender(state)) in its branch
\* (fzf.py:92) and again at the end of the loop body (fzf.py:116)
FzfHandleSignal ==
    /\ MainAt("handle")
    /\ event.type = "signal"
    /\ renders' = (renders + 1) + 1
    /\ pcMain' = "get"
    /\ delivered' = "none"
    /\ enqueued' = "none"
    /\ UNCHANGED <<funcVars, exc, result, event, handlerVars, readerVars, inputVars,
                   termVars, queueVars, listVars, treeVars, signalVars>>

\* a mapped control key, then the update_screen at the end of the loop body
FzfHandleKey ==
    /\ MainAt("handle")
    /\ event.type = "key" /\ event.is_keys
    /\ event.key \in FzfMappedKeys
    /\ fzf' = FuzzyFind_key(fzf, event.key)
    /\ renders' = renders + 1
    /\ pcMain' = "get"
    /\ delivered' = "none"
    /\ enqueued' = "none"
    /\ UNCHANGED <<sat, screen, view, tbox, fzfOp, toggled, exc, result, event, handlerVars, readerVars,
                   inputVars, termVars, queueVars, listVars, treeVars, signalVars>>

\* Keys.Enter (Keys.ControlM): return state.selected
FzfHandleReturn ==
    /\ MainAt("handle")
    /\ event.type = "key" /\ event.is_keys
    /\ event.key = "ControlM"
    /\ result' = [returned |-> TRUE, value |-> fzf.selected]
    /\ pcMain' = "die"
    /\ delivered' = "none"
    /\ enqueued' = "none"
    /\ UNCHANGED <<funcVars, exc, event, renders, handlerVars, readerVars, inputVars,
                   termVars, queueVars, listVars, treeVars, signalVars>>

\* any other Keys member: raise NotImplementedError(event)
FzfHandleUnmapped ==
    /\ MainAt("handle")
    /\ event.type = "key" /\ event.is_keys
    /\ event.key \notin FzfMappedKeys \cup {"ControlM"}
    /\ exc' = "NotImplementedError"
    /\ pcMain' = "restore"
    /\ delivered' = "none"
    /\ enqueued' = "none"
    /\ UNCHANGED <<funcVars, result, event, renders, handlerVars, readerVars, inputVars,
                   termVars, queueVars, listVars, treeVars, signalVars>>

\* a character: state.needle += event.key, then the update_screen at the
\* end of the loop body
FzfHandleStr ==
    /\ MainAt("handle")
    /\ event.type = "key" /\ ~event.is_keys
    /\ fzf' = FuzzyFind_str(fzf, event.key)
    /\ renders' = renders + 1
    /\ pcMain' = "get"
    /\ delivered' = "none"
    /\ enqueued' = "none"
    /\ UNCHANGED <<sat, screen, view, tbox, fzfOp, toggled, exc, result, event, handlerVars, readerVars,
                   inputVars, termVars, queueVars, listVars, treeVars, signalVars>>

\* the fuzzy finder's loop body on its own: the key events are handled one
\* after the other, without the queue they come through

\* the last key event handled, with the state it was handled in
FzfOp(key, is_keys, before) == [key |-> key, is_keys |-> is_keys, before |-> before]

\* the loop was left: Enter returned, or an unmapped key raised
FuzzyEnded == fzfOp.is_keys /\ fzfOp.key \notin FzfMappedKeys

\* the haystacks the finder is started with
FzfHaystacks == { <<"q">>, <<"q", "x">>, <<"x", "q", "z">>, <<"x", "x">> }

\* the characters typed into the needle
FzfChars == {"x", "q"}

\* a mapped control key (fzf.py:93-109)
FuzzyKey ==
    /\ ~FuzzyEnded
    /\ \E key \in FzfMappedKeys :
          /\ fzf' = FuzzyFind_key(fzf, key)
          /\ fzfOp' = FzfOp(key, TRUE, fzf)
    /\ UNCHANGED <<sat, screen, view, tbox, toggled, listVars, treeVars,
                   signalVars, sessionVars>>

\* a character (fzf.py:114-115)
FuzzyStr ==
    /\ ~FuzzyEnded
    /\ Len(fzf.needle) < MaxTyped
    /\ \E char \in FzfChars :
          /\ fzf' = FuzzyFind_str(fzf, char)
          /\ fzfOp' = FzfOp(char, FALSE, fzf)
    /\ UNCHANGED <<sat, screen, view, tbox, toggled, listVars, treeVars,
                   signalVars, sessionVars>>

\* Keys.Enter returns state.selected, any other Keys member raises
\* NotImplementedError (fzf.py:110-113)
FuzzyEnd ==
    /\ ~FuzzyEnded
    /\ \E key \in {"ControlM", "ControlA"} : fzfOp' = FzfOp(key, TRUE, fzf)
    /\ UNCHANGED <<sat, screen, fzf, view, tbox, toggled, listVars, treeVars,
                   signalVars, sessionVars>>

FzfIdle == fzf = FuzzyFind(<<>>)

---------------------------------------------------------------------------
\* examples/list_view.py: the ListView state, its render and its event loop

\* Select(c) of examples/list_view.py
ViewSelect(c) == [inner |-> c, selected |-> FALSE]

\* ListView(candidates=[Select(c) for c in candidates])
ListView(n) ==
    [candidates |-> [k \in 1..n |-> ViewSelect(k)], cursor |-> 0, offset |-> 0]

\* l[a:b] of a Python list
PySlice(l, a, b) ==
    LET norm(i) == IF i < 0
                   THEN (IF Len(l) + i < 0 THEN 0 ELSE Len(l) + i)
                   ELSE (IF i > Len(l) THEN Len(l) ELSE i)
    IN SubSeq(l, norm(a) + 1, norm(b))

\* ListView.__rich_console__: the rows yielded, and which one is highlighted
ListView_render(state, max_height) ==
    LET tail == PySliceFrom(state.candidates, state.cursor)
        start == state.cursor - state.offset
        shown == PySlice(tail, start, max_height)
    IN [i \in 1..Len(shown) |->
           [text |-> shown[i].inner, highlighted |-> (i - 1 = state.offset)]]

\* the viewer with its state, the rows and the height of its last render,
\* and the position of list_viewer_safe
Viewer(state, rows, height, pc) ==
    [state |-> state, rows |-> rows, height |-> height, pc |-> pc]

\* console.update_screen(state)  # Initial display
ViewInitialRender ==
    /\ view.pc = "start"
    /\ \E h \in 0..MaxHeight :
          view' = Viewer(view.state, ListView_render(view.state, h), h, "loop")
    /\ UNCHANGED <<sat, screen, fzf, tbox, fzfOp, toggled, listVars, treeVars, signalVars, sessionVars>>

\* a Signal: console.update_screen(state)  # Redraw on resize
ViewSignal ==
    /\ view.pc = "loop"
    /\ \E h \in 0..MaxHeight :
          view' = Viewer(view.state, ListView_render(view.state, h), h, "loop")
    /\ UNCHANGED <<sat, screen, fzf, tbox, fzfOp, toggled, listVars, treeVars, signalVars, sessionVars>>

\* Keys.Up, then console.update_screen(state)
ViewUp ==
    /\ view.pc = "loop"
    /\ LET state == [view.state EXCEPT
                        !.cursor = saturating_sub(view.state.cursor, 1, 0)]
       IN \E h \in 0..MaxHeight :
             view' = Viewer(state, ListView_render(state, h), h, "loop")
    /\ UNCHANGED <<sat, screen, fzf, tbox, fzfOp, toggled, listVars, treeVars, signalVars, sessionVars>>

\* Keys.Down, then console.update_screen(state)
ViewDown ==
    /\ view.pc = "loop"
    /\ LET state == [view.state EXCEPT
                        !.cursor = saturating_add(view.state.cursor, 1,
                                                  Len(view.state.candidates))]
       IN \E h \in 0..MaxHeight :
             view' = Viewer(state, ListView_render(state, h), h, "loop")
    /\ UNCHANGED <<sat, screen, fzf, tbox, fzfOp, toggled, listVars, treeVars, signalVars, sessionVars>>

\* any other Keys member: raise NotImplementedError(event)
ViewUnmapped ==
    /\ view.pc = "loop"
    /\ view' = [view EXCEPT !.pc = "raised"]
    /\ UNCHANGED <<sat, screen, fzf, tbox, fzfOp, toggled, listVars, treeVars, signalVars, sessionVars>>

ViewIdle == view = Viewer(ListView(0), <<>>, 0, "idle")

---------------------------------------------------------------------------
\* rich_tea/text_box.py: TextCursor

\* the characters a text is made of: two word characters and a blank
TextChars == {"a", "b", " "}

\* \w of the re module
IsWordChar(c) == c # " "

\* the arguments insert is called with: every single character, the empty
\* string and a string of two characters
InsertArgs == { <<c>> : c \in TextChars } \cup { <<>>, <<"a", "b">> }

TextCursor(text, cur) == [text |-> text, cursor |-> cur]

\* TextCursor.empty()
TextCursor_empty == TextCursor(<<>>, 0)

TextCursor_bump_left(s) == TextCursor(s.text, saturating_sub(s.cursor, 1, 0))

\* a step right that does not stop at the end of the text
TextCursor_bump_right_past(s) == [text |-> s.text, cursor |-> s.cursor + 1]

TextCursor_bump_right(s) ==
    TextCursor(s.text, saturating_add(s.cursor, 1, Len(s.text)))

TextCursor_jump_to_left(s) == TextCursor(s.text, 0)

TextCursor_jump_to_right(s) == TextCursor(s.text, Len(s.text))

\* self.text[: self.cursor]
before_cursor(s) == PySlice(s.text, 0, s.cursor)

\* self.text[self.cursor :]
after_cursor(s) == PySlice(s.text, s.cursor, Len(s.text))

\* an insert that appends the character to the text
TextCursor_insert_at_end(s, char) ==
    [text |-> s.text \o char, cursor |-> s.cursor + 1]

\* a remove_right that steps left as remove_left does
TextCursor_remove_right_moving(s) ==
    [text |-> PySlice(s.text, 0, s.cursor)
                 \o PySlice(s.text, s.cursor + 1, Len(s.text)),
     cursor |-> saturating_sub(s.cursor, 1, 0)]

\* insert(char) for a char of length 1
TextCursor_insert(s, char) ==
    TextCursor(before_cursor(s) \o char \o after_cursor(s), s.cursor + 1)

TextCursor_remove_left(s) ==
    TextCursor(PySlice(before_cursor(s), 0, -1) \o after_cursor(s),
               saturating_sub(s.cursor, 1, 0))

TextCursor_remove_right(s) ==
    TextCursor(before_cursor(s)
                  \o PySlice(after_cursor(s), 1, Len(after_cursor(s))),
               s.cursor)

\* re.finditer(r"\b", text): the positions with a word character on exactly
\* one side, the ends of the text counting as not a word character
word_boundaries(text) ==
    LET word(i) == i \in 1..Len(text) /\ IsWordChar(text[i])
    IN { i \in 0..Len(text) : word(i) # word(i + 1) }

\* a step to the first word boundary of the text left of the cursor
TextCursor_bump_left_to_first_word(s) ==
    LET left == { i \in word_boundaries(s.text) : i < s.cursor }
    IN [text |-> s.text,
        cursor |-> IF left = {} THEN s.cursor
                   ELSE CHOOSE i \in left : \A j \in left : i <= j]

\* next(filter(lambda i: i < self.cursor, reversed(self.word_boundaries)),
\*      self.cursor)
TextCursor_bump_left_by_word(s) ==
    LET left == { i \in word_boundaries(s.text) : i < s.cursor }
    IN TextCursor(s.text,
                  IF left = {} THEN s.cursor
                  ELSE CHOOSE i \in left : \A j \in left : j <= i)

\* next(filter(lambda i: i > self.cursor, self.word_boundaries), self.cursor)
TextCursor_bump_right_by_word(s) ==
    LET right == { i \in word_boundaries(s.text) : i > s.cursor }
    IN TextCursor(s.text,
                  IF right = {} THEN s.cursor
                  ELSE CHOOSE i \in right : \A j \in right : i <= j)

\* cached_after = self.after_cursor; self.bump_left_by_word();
\* self.text = f"{self.before_cursor}{cached_after}"
TextCursor_remove_left_word(s) ==
    LET cached_after == after_cursor(s)
        bumped == TextCursor_bump_left_by_word(s)
    IN TextCursor(before_cursor(bumped) \o cached_after, bumped.cursor)

\* the text box after a method call: its state, and as history the method,
\* its argument, the state before the call and whether it raised
TextBox(s, op, char, before, raised) ==
    [text |-> s.text, cursor |-> s.cursor, op |-> op, char |-> char,
     before |-> before, raised |-> raised]

\* the TextCursor held by the text box
TextState == TextCursor(tbox.text, tbox.cursor)

\* a method without argument is called
TextCall(op, s) ==
    /\ tbox' = TextBox(s, op, <<>>, TextState, FALSE)
    /\ UNCHANGED <<sat, screen, fzf, view, fzfOp, toggled, listVars, treeVars,
                   signalVars, sessionVars>>

\* insert(char): raise RuntimeError unless len(char) == 1
TextInsert ==
    \E char \in InsertArgs :
        /\ Len(tbox.text) < MaxText
        /\ tbox' = IF Len(char) # 1
                   THEN TextBox(TextState, "insert", char, TextState, TRUE)
                   ELSE TextBox(TextCursor_insert(TextState, char), "insert",
                                char, TextState, FALSE)
        /\ UNCHANGED <<sat, screen, fzf, view, fzfOp, toggled, listVars,
                       treeVars, signalVars, sessionVars>>

TextRemoveLeft == TextCall("remove_left", TextCursor_remove_left(TextState))

TextRemoveRight == TextCall("remove_right", TextCursor_remove_right(TextState))

TextRemoveLeftWord ==
    TextCall("remove_left_word", TextCursor_remove_left_word(TextState))

TextBumpLeft == TextCall("bump_left", TextCursor_bump_left(TextState))

TextBumpRight == TextCall("bump_right", TextCursor_bump_right(TextState))

TextJumpToLeft == TextCall("jump_to_left", TextCursor_jump_to_left(TextState))

TextJumpToRight == TextCall("jump_to_right", TextCursor_jump_to_right(TextState))

TextBumpLeftByWord ==
    TextCall("bump_left_by_word", TextCursor_bump_left_by_word(TextState))

TextBumpRightByWord ==
    TextCall("bump_right_by_word", TextCursor_bump_right_by_word(TextState))

\* TextCursor.empty(), no method called yet
TextIdle == tbox = TextBox(TextCursor_empty, "none", <<>>, TextCursor_empty, FALSE)

FzfOpIdle == fzfOp = FzfOp("none", FALSE, FuzzyFind(<<>>))

ToggledIdle == toggled = {}

SatIdle == sat = SatArgs(0, 0)

ScreenIdle == screen = NotRendered

\* the session before it starts, with the keys the user may press and
\* whether stdin is a terminal
SessionStart(keys, tty) ==
    /\ pcMain = "start" /\ exc = "none" /\ result = [returned |-> FALSE, value |-> {}]
    /\ event = [type |-> "none"] /\ renders = 0
    /\ hPc = "none" /\ sigCount = 0
    /\ die = FALSE /\ readerPc = "idle" /\ readerOut = <<>> /\ prefix = <<>>
    /\ selectorClosed = FALSE
    /\ stdin = <<>> /\ typed = 0 /\ keyboard = keys
    /\ origAttrs \in TermConfigs /\ termAttrs = origAttrs /\ isatty = tty
    /\ heap = <<>> /\ old = 0 /\ new = 0 /\ restoreCount = 0
    /\ queue = <<>> /\ mutex = "free" /\ putLog = <<>> /\ gotLog = <<>>
    /\ delivered = "none" /\ enqueued = "none"

SessionIdle == SessionStart(SessionKeys, TRUE)

InitList ==
    /\ \E n \in 0..MaxItems : items = Cursor_from_iterable(n)
    /\ cursor = 0
    /\ listOp = ListOp("none", items, cursor) /\ downs = FreshRun
    /\ TreeIdle /\ SignalIdle /\ SessionIdle /\ SatIdle /\ ScreenIdle /\ FzfIdle /\ ViewIdle
    /\ TextIdle /\ FzfOpIdle /\ ToggledIdle
    /\ origAttrs.cc.VMIN = 1

NextList ==
    \/ ListBumpUp
    \/ ListBumpDown
    \/ ListJumpToTop
    \/ ListJumpToBottom
    \/ ListToggleCurrent
    \/ ListRender

SpecList == InitList /\ [][NextList]_vars

InitTree ==
    /\ tree \in {ZenTree, leaf(0)}
    /\ tcursor = <<>>
    /\ treeOp = [op |-> "none", before |-> <<>>]
    /\ ListIdle /\ SignalIdle /\ SessionIdle /\ SatIdle /\ ScreenIdle /\ FzfIdle /\ ViewIdle
    /\ TextIdle /\ FzfOpIdle /\ ToggledIdle
    /\ origAttrs.cc.VMIN = 1

NextTree ==
    \/ TreeBumpUp
    \/ TreeBumpDown
    \/ TreeBumpDeeper
    \/ TreeBumpShallower
    \/ TreeToggle

SpecTree == InitTree /\ [][NextTree]_vars

InitSignals ==
    /\ handlers \in [Signals -> PriorHandlers]
    /\ prevHandlers = handlers
    /\ old_handlers = EmptyDict
    /\ sigArgs \in SeqsUpTo(Signals, MaxSigs)
    /\ ListIdle /\ TreeIdle /\ SessionIdle /\ SatIdle /\ ScreenIdle /\ FzfIdle /\ ViewIdle
    /\ TextIdle /\ FzfOpIdle /\ ToggledIdle
    /\ origAttrs.cc.VMIN = 1

NextSignals ==
    \/ SignalsEnter
    \/ SignalsBodyReturn
    \/ SignalsBodyRaise
    \/ ExitSignals

SpecSignals == InitSignals /\ [][NextSignals]_vars

InitSession ==
    /\ items = Cursor_from_iterable(SessionItems)
    /\ cursor = 0
    /\ listOp = ListOp("none", items, cursor) /\ downs = FreshRun
    /\ TreeIdle /\ SignalIdle /\ SessionIdle /\ SatIdle /\ ScreenIdle /\ FzfIdle /\ ViewIdle
    /\ TextIdle /\ FzfOpIdle /\ ToggledIdle

NextSession ==
    \/ SessionEnterSignals
    \/ StartReader
    \/ BuildRaw
    \/ ApplyRaw
    \/ EnterScope
    \/ SetupInterrupt
    \/ InitialRender
    \/ GetAcquire
    \/ GetWait
    \/ GetWake
    \/ GetItem
    \/ HandleSignal
    \/ HandleKey
    \/ HandleReturn
    \/ HandleUnmapped
    \/ HandleIgnored
    \/ KeyboardInterrupt
    \/ SetDie
    \/ Join
    \/ Restore
    \/ CloseSelector
    \/ ExitSignals
    \/ DeliverSignal
    \/ HandlerAcquire
    \/ HandlerEnqueue
    \/ ReaderLoop
    \/ ReaderClosed
    \/ ReaderTimeout
    \/ ReaderSelect
    \/ ReaderRead
    \/ ReaderPutAcquire
    \/ ReaderPutItem
    \/ TypeKey

SpecSession == InitSession /\ [][NextSession]_vars

InitSaturating ==
    /\ \E i \in -MaxInt..MaxInt, bound \in -MaxInt..MaxInt : sat = SatArgs(i, bound)
    /\ ListIdle /\ TreeIdle /\ SignalIdle /\ SessionIdle /\ ScreenIdle /\ FzfIdle /\ ViewIdle
    /\ TextIdle /\ FzfOpIdle /\ ToggledIdle
    /\ origAttrs.cc.VMIN = 1

NextSaturating ==
    \/ SaturatingAdd
    \/ SaturatingSub

SpecSaturating == InitSaturating /\ [][NextSaturating]_vars

\* the session started with a stdin that is not a terminal (a pipe)
InitNoTty ==
    /\ items = Cursor_from_iterable(SessionItems)
    /\ cursor = 0
    /\ listOp = ListOp("none", items, cursor) /\ downs = FreshRun
    /\ TreeIdle /\ SignalIdle /\ SatIdle /\ ScreenIdle /\ FzfIdle /\ ViewIdle
    /\ TextIdle /\ FzfOpIdle /\ ToggledIdle
    /\ SessionStart(SessionKeys, FALSE)

NextNoTty ==
    \/ SessionEnterSignals
    \/ StartReader
    \/ TcgetattrFails
    \/ SetupInterrupt
    \/ ExitSignals
    \/ DeliverSignal
    \/ HandlerAcquire
    \/ HandlerEnqueue
    \/ ReaderLoop
    \/ ReaderTimeout
    \/ ReaderSelect
    \/ ReaderRead
    \/ ReaderPutAcquire
    \/ ReaderPutItem
    \/ TypeKey

SpecNoTty == InitNoTty /\ [][NextNoTty]_vars

\* the keys typed in a session of the fuzzy finder
FzfKeys == {"Up", "Down", "Tab", "ControlU", "Backspace", "Enter",
            "ControlA", "x", "q"}

\* fuzzyfinder_safe(candidates) about to be called
InitFzf ==
    /\ ListIdle /\ TreeIdle /\ SignalIdle /\ SatIdle /\ ScreenIdle /\ ViewIdle
    /\ TextIdle /\ FzfOpIdle /\ ToggledIdle
    /\ fzf = FuzzyFind(FzfHaystack)
    /\ SessionStart(FzfKeys, TRUE)

NextFzf ==
    \/ SessionEnterSignals
    \/ StartReader
    \/ BuildRaw
    \/ ApplyRaw
    \/ EnterScope
    \/ SetupInterrupt
    \/ InitialRender
    \/ GetAcquire
    \/ GetWait
    \/ GetWake
    \/ GetItem
    \/ FzfHandleSignal
    \/ FzfHandleKey
    \/ FzfHandleReturn
    \/ FzfHandleUnmapped
    \/ FzfHandleStr
    \/ KeyboardInterrupt
    \/ SetDie
    \/ Join
    \/ Restore
    \/ CloseSelector
    \/ ExitSignals
    \/ DeliverSignal
    \/ HandlerAcquire
    \/ HandlerEnqueue
    \/ ReaderLoop
    \/ ReaderClosed
    \/ ReaderTimeout
    \/ ReaderSelect
    \/ ReaderRead
    \/ ReaderPutAcquire
    \/ ReaderPutItem
    \/ TypeKey

SpecFzf == InitFzf /\ [][NextFzf]_vars

\* list_viewer_safe(candidates) of examples/list_view.py with a list that
\* is not empty, about to render for the first time
InitView ==
    /\ ListIdle /\ TreeIdle /\ SignalIdle /\ SessionIdle /\ SatIdle
    /\ ScreenIdle /\ FzfIdle /\ TextIdle /\ FzfOpIdle /\ ToggledIdle
    /\ \E n \in 1..MaxItems : view = Viewer(ListView(n), <<>>, 0, "start")

NextView ==
    \/ ViewInitialRender
    \/ ViewSignal
    \/ ViewUp
    \/ ViewDown
    \/ ViewUnmapped

SpecView == InitView /\ [][NextView]_vars

\* the fuzzy finder's loop body on its own, started on a haystack that is
\* not empty
InitFuzzy ==
    /\ ListIdle /\ TreeIdle /\ SignalIdle /\ SessionIdle /\ SatIdle
    /\ ScreenIdle /\ ViewIdle /\ TextIdle /\ ToggledIdle
    /\ \E h \in FzfHaystacks :
          /\ fzf = FuzzyFind(h)
          /\ fzfOp = FzfOp("none", FALSE, fzf)

NextFuzzy ==
    \/ FuzzyKey
    \/ FuzzyStr
    \/ FuzzyEnd

SpecFuzzy == InitFuzzy /\ [][NextFuzzy]_vars

\* the text box on its own: TextCursor.empty() and any sequence of calls
InitText ==
    /\ ListIdle /\ TreeIdle /\ SignalIdle /\ SessionIdle /\ SatIdle
    /\ ScreenIdle /\ FzfIdle /\ ViewIdle /\ FzfOpIdle /\ ToggledIdle
    /\ TextIdle

NextText ==
    \/ TextInsert
    \/ TextRemoveLeft
    \/ TextRemoveRight
    \/ TextRemoveLeftWord
    \/ TextBumpLeft
    \/ TextBumpRight
    \/ TextJumpToLeft
    \/ TextJumpToRight
    \/ TextBumpLeftByWord
    \/ TextBumpRightByWord

SpecText == InitText /\ [][NextText]_vars

\* the session with the keyboard that exercises the decoder
InitReader ==
    /\ items = Cursor_from_iterable(SessionItems)
    /\ cursor = 0
    /\ listOp = ListOp("none", items, cursor) /\ downs = FreshRun
    /\ TreeIdle /\ SignalIdle /\ SatIdle /\ ScreenIdle /\ FzfIdle /\ ViewIdle
    /\ TextIdle /\ FzfOpIdle /\ ToggledIdle
    /\ SessionStart(ReaderKeys, TRUE)

SpecReader == InitReader /\ [][NextSession]_vars

\* the steps of the main thread, of the signal handler and of the reader
\* thread; the user's key presses and the arrival of signals are no steps
\* of the program
MainStep ==
    \/ SessionEnterSignals \/ StartReader \/ BuildRaw \/ ApplyRaw
    \/ EnterScope \/ InitialRender \/ GetAcquire \/ GetWait \/ GetWake
    \/ GetItem \/ HandleSignal \/ HandleKey \/ HandleReturn
    \/ HandleUnmapped \/ HandleIgnored \/ SetDie \/ Join \/ Restore
    \/ CloseSelector \/ ExitSignals

HandlerStep == HandlerAcquire \/ HandlerEnqueue

ReaderStep ==
    \/ ReaderLoop \/ ReaderClosed \/ ReaderTimeout \/ ReaderSelect
    \/ ReaderRead \/ ReaderPutAcquire \/ ReaderPutItem

\* the list-select session with its threads scheduled fairly
SpecSessionFair ==
    /\ InitSession
    /\ [][NextSession]_vars
    /\ WF_vars(MainStep)
    /\ WF_vars(HandlerStep)
    /\ WF_vars(ReaderStep)

\* the threads are scheduled fairly: a thread that can take a step takes one
SpecReaderFair ==
    /\ InitReader
    /\ [][NextSession]_vars
    /\ WF_vars(MainStep)
    /\ WF_vars(HandlerStep)
    /\ WF_vars(ReaderStep)

---------------------------------------------------------------------------
\* Claims

Max(a, b) == IF a >= b THEN a ELSE b

\* the body of for_stdin's with statement was entered and its finally
\* clause has run
StdinScopeLeft ==
    \/ pcMain = "close"
    \/ pcMain \in {"signals_exit", "done"} /\ selectorClosed

\* C1: after any sequence of bump_up, bump_down, jump_to_top and
\* jump_to_bottom on any list (the empty list included) the list cursor
\* satisfies 0 <= cursor <= max(0, len(items) - 1).
C1_CursorInBounds ==
    /\ 0 <= cursor
    /\ cursor <= Max(0, Len(items) - 1)

\* C2: on a Cursor whose items list is empty every navigation operation is
\* a no-op: the cursor is 0 before and 0 after.
C2_EmptyListNoOp ==
    [][(items = <<>> /\ cursor = 0) => cursor' = 0]_vars

\* C3: on every exit of the for_stdin scope (return or exception in the
\* body) the terminal attributes are set back exactly once to the snapshot
\* taken before raw mode was applied, and building the raw-mode attributes
\* does not alter that snapshot.
C3_RestoredExactlyOnce ==
    /\ restoreCount <= 1
    /\ StdinScopeLeft => (restoreCount = 1 /\ termAttrs = origAttrs)
    /\ old # 0 => attrs_of(heap, old) = origAttrs

\* C3 witness: the scope was left by an exception raised in the body, on a
\* terminal whose VMIN differs from the raw-mode value.
C3_Witness ==
    /\ pcMain = "done"
    /\ exc = "NotImplementedError"
    /\ restoreCount = 1
    /\ origAttrs.cc.VMIN # 1
    /\ attrs_of(heap, new) # origAttrs

\* C4: on every exit path of the for_stdin scope the reader thread has
\* terminated (been joined) before the terminal attributes are restored.
C4_ReaderJoinedBeforeRestore ==
    restoreCount > 0 => readerPc = "dead"

\* C5: the signal handler completes its enqueue without blocking wherever
\* the main thread is when the signal is delivered: the handler never
\* waits for the queue's lock while the main thread, which it interrupted,
\* holds it.
C5_HandlerNeverBlockedByMain ==
    ~(hPc = "put" /\ mutex = "main")

\* C6: the consumer pulls the events of the reader thread and of the signal
\* handler in exactly the order in which they were put on the queue: none
\* is lost, duplicated or reordered.
C6_Fifo == gotLog \o queue = putLog

\* C6 witness: the consumer has pulled a signal event and a key event.
C6_Witness ==
    /\ Len(gotLog) >= 2
    /\ gotLog[1].type = "signal"
    /\ gotLog[2].type = "key"
    /\ queue # <<>>

\* C7 (as claimed): if a resize signal is delivered while the consumer is
\* blocked on queue.get() with an empty queue, the very next event pulled
\* is the Signal event, the render is invoked in response and the cursor
\* state is unchanged by handling it.
C7_DeliveredSignalPulledNext ==
    [][ /\ delivered' = "pulled" => event' = Signal(SIGWINCH)
        /\ (pcMain = "handle" /\ delivered = "pulled" /\ pcMain' = "get") =>
              (renders' = renders + 1 /\ cursor' = cursor /\ items' = items)
      ]_vars

\* C7 (amended): if the handler's enqueue takes place while the consumer is
\* blocked on queue.get() with an empty queue, the very next event pulled
\* is the Signal event, the render is invoked in response and the cursor
\* state is unchanged by handling it.
C7_EnqueuedSignalPulledNext ==
    [][ /\ enqueued' = "pulled" => event' = Signal(SIGWINCH)
        /\ (pcMain = "handle" /\ enqueued = "pulled" /\ pcMain' = "get") =>
              (renders' = renders + 1 /\ cursor' = cursor /\ items' = items)
      ]_vars

\* C7 witness: the signal enqueued for the blocked consumer has been pulled,
\* with the cursor moved off its initial position and a key press waiting
\* behind the signal.
C7_Witness ==
    /\ enqueued = "pulled"
    /\ pcMain = "handle"
    /\ event = Signal(SIGWINCH)
    /\ cursor # 0
    /\ queue # <<>>

\* C8: when the for_signals scope exits, every signal number passed to it
\* (also one listed more than once) has the handler that was installed
\* before the scope was entered.
C8_HandlersRestored ==
    pcMain = "done" =>
        \A k \in 1..Len(sigArgs) :
            handlers[sigArgs[k]] = prevHandlers[sigArgs[k]]

\* C9: the tree cursor path always resolves to a live node: every path[i]
\* is a valid index into the children of the node reached by path[0..i).
C9_PathResolves == ValidPath(tree, tcursor)

\* C9 witness: the cursor sits on the last leaf of the deepest group, where
\* a further bump_down has to clamp, on a collapsed node.
C9_Witness ==
    /\ Len(tcursor) = 3
    /\ Last(tcursor) = max_index(pointee_parent(tree, tcursor).children)
    /\ at(tree, tcursor).collapsed

\* C10: at any path whose node has at least one child (the empty path at
\* the root included) bump_deeper followed by bump_shallower restores the
\* original path.
C10_DeeperThenShallowerRestores ==
    Len(at(tree, tcursor).children) >= 1 =>
        TreeCursor_bump_shallower(tree, TreeCursor_bump_deeper(tree, tcursor))
            = tcursor

Min(a, b) == IF a <= b THEN a ELSE b

\* C11: bump_shallower removes exactly the last path segment whenever the
\* path is non-empty, and leaves the path unchanged when it is empty.
C11_ShallowerPopsUnlessRoot ==
    treeOp.op = "bump_shallower" =>
        tcursor = (IF treeOp.before # <<>> THEN Front(treeOp.before)
                                           ELSE treeOp.before)

\* the number of siblings of the node at the non-empty path c, itself counted
Siblings(c) == Len(at(tree, Front(c)).children)

\* C12: bump_up and bump_down change only the last path segment, by at most
\* one, clamped to [0, number of siblings - 1] without wrapping; at the root
\* they leave the path unchanged; all earlier segments are unchanged.
C12_BumpWithinSiblings ==
    treeOp.op \in {"bump_up", "bump_down"} =>
        LET b == treeOp.before IN
        IF b = <<>>
        THEN tcursor = <<>>
        ELSE /\ Len(tcursor) = Len(b)
             /\ Front(tcursor) = Front(b)
             /\ Last(tcursor) \in 0..(Siblings(b) - 1)
             /\ treeOp.op = "bump_down" =>
                    Last(tcursor) = Min(Last(b) + 1, Siblings(b) - 1)
             /\ treeOp.op = "bump_up" =>
                    Last(tcursor) = Max(Last(b) - 1, 0)

\* C12 witness: bump_down was applied on the last of several siblings below
\* the first level and left the path as it was.
C12_Witness ==
    /\ treeOp.op = "bump_down"
    /\ Len(treeOp.before) >= 2
    /\ Siblings(treeOp.before) >= 2
    /\ Last(treeOp.before) = Siblings(treeOp.before) - 1
    /\ tcursor = treeOp.before

\* C13: bump_deeper appends exactly one segment 0 when the current node has
\* at least one child, and leaves the path unchanged on a leaf.
C13_DeeperAppendsZero ==
    treeOp.op = "bump_deeper" =>
        tcursor = (IF Len(at(tree, treeOp.before).children) >= 1
                   THEN Append(treeOp.before, 0)
                   ELSE treeOp.before)

\* C13 witness: bump_deeper descended from a node below the root that has
\* several children.
C13_Witness ==
    /\ treeOp.op = "bump_deeper"
    /\ treeOp.before # <<>>
    /\ Len(at(tree, treeOp.before).children) >= 2
    /\ tcursor = Append(treeOp.before, 0)

\* the tree t with every node expanded: its items and its shape
RECURSIVE Expanded(_)
Expanded(t) ==
    TreeData(t.item, [k \in 1..Len(t.children) |-> Expanded(t.children[k])],
             FALSE)

\* the paths of the nodes whose collapsed flag differs between t and u, two
\* trees of the same shape
RECURSIVE Flipped(_, _)
Flipped(t, u) ==
    (IF t.collapsed # u.collapsed THEN {<<>>} ELSE {}) \cup
    UNION { { <<k - 1>> \o p : p \in Flipped(t.children[k], u.children[k]) } :
            k \in 1..Len(t.children) }

\* C14: toggling a node flips only that node's collapsed flag (its item, its
\* children, every other node's flag and the cursor path are unchanged), and
\* bump_up, bump_down, bump_deeper and bump_shallower yield the same path
\* whether nodes are collapsed or not.
C14_ToggleFlipsOneFlag ==
    /\ [][ treeOp'.op = "toggle" =>
             /\ tcursor' = tcursor
             /\ Expanded(tree') = Expanded(tree)
             /\ Flipped(tree, tree') = {treeOp'.node} ]_vars
    /\ [] LET expanded == Expanded(tree) IN
          /\ TreeCursor_bump_up(tree, tcursor) =
                TreeCursor_bump_up(expanded, tcursor)
          /\ TreeCursor_bump_down(tree, tcursor) =
                TreeCursor_bump_down(expanded, tcursor)
          /\ TreeCursor_bump_deeper(tree, tcursor) =
                TreeCursor_bump_deeper(expanded, tcursor)
          /\ TreeCursor_bump_shallower(tree, tcursor) =
                TreeCursor_bump_shallower(expanded, tcursor)

\* C14 witness: the node under the cursor, which has children, was toggled
\* to collapsed while one of its ancestors is collapsed too.
C14_Witness ==
    /\ treeOp.op = "toggle"
    /\ treeOp.node = tcursor
    /\ Len(tcursor) >= 2
    /\ at(tree, tcursor).collapsed
    /\ Len(at(tree, tcursor).children) >= 1
    /\ at(tree, Front(tcursor)).collapsed

\* C15: toggling the selection of the item at the cursor flips that item's
\* selected flag and nothing else (cursor, item values and every other
\* item's flag are unchanged), and two consecutive toggles at the same
\* position return every selected flag to its original value.
C15_ToggleFlipsOneItem ==
    /\ listOp.op = "toggle" =>
          /\ cursor = listOp.cursor
          /\ Len(items) = Len(listOp.items)
          /\ \A k \in 1..Len(items) :
                /\ items[k].item = listOp.items[k].item
                /\ items[k].selected =
                      (IF k = cursor + 1 THEN ~listOp.items[k].selected
                                         ELSE listOp.items[k].selected)
    /\ PyIndex(items, cursor) \in 1..Len(items) =>
          Cursor_toggle_current(Cursor_toggle_current(items, cursor), cursor)
              = items

\* C15 witness: an item below the first was toggled back to unselected
\* while another item stays selected.
C15_Witness ==
    /\ listOp.op = "toggle"
    /\ cursor >= 1
    /\ listOp.items[cursor + 1].selected
    /\ ~items[cursor + 1].selected
    /\ \E k \in 1..Len(items) : k # cursor + 1 /\ items[k].selected

\* C16: for 0 <= i <= max, saturating_add(i, 1, max) lies in [0, max] and
\* equals min(i + 1, max); for i >= min, saturating_sub(i, 1, min) is at
\* least min and equals max(i - 1, min); in particular
\* saturating_add(max, 1, max) = max and saturating_sub(0, 1, 0) = 0.
C16_SaturatingStaysInRange ==
    /\ (sat.op = "add" /\ sat.step = 1 /\ 0 <= sat.i /\ sat.i <= sat.bound) =>
          /\ sat.out \in 0..sat.bound
          /\ sat.out = Min(sat.i + 1, sat.bound)
          /\ sat.i = sat.bound => sat.out = sat.bound
    /\ (sat.op = "sub" /\ sat.step = 1 /\ sat.i >= sat.bound) =>
          /\ sat.out >= sat.bound
          /\ sat.out = Max(sat.i - 1, sat.bound)
          /\ (sat.i = 0 /\ sat.bound = 0) => sat.out = 0

\* C16 witness: saturating_sub(i, 1, min) was called with i = min, a
\* negative number, and returned min.
C16_Witness ==
    /\ sat.op = "sub" /\ sat.step = 1
    /\ sat.i = sat.bound /\ sat.bound < 0
    /\ sat.out = sat.bound

\* C17: on a Cursor over a non-empty list of n items that starts at
\* position 0, after k consecutive bump_down calls the position is
\* min(k, n - 1); with 3 items three bump_down calls leave it at 2.
C17_BumpDownRun ==
    (downs.valid /\ items # <<>>) =>
        /\ cursor = Min(downs.k, Len(items) - 1)
        /\ (Len(items) = 3 /\ downs.k = 3) => cursor = 2

\* C17 witness: three bump_down calls in a row were made on a list of 3
\* items, the last of them at the bottom.
C17_Witness ==
    /\ downs.valid /\ downs.k = 3
    /\ Len(items) = 3
    /\ listOp.op = "bump_down" /\ listOp.cursor = 2
    /\ cursor = 2

\* C18: for every list length, every cursor in [0, len - 1] and every
\* viewport height >= 1 the rendered window starts at 0 when
\* cursor < height and at cursor - height + 1 otherwise, shows the
\* consecutive rows start .. min(start + height, len) - 1, and contains the
\* cursor row (start <= cursor < start + height).
C18_WindowContainsCursor ==
    (/\ screen.rendered
     /\ screen.height >= 1
     /\ screen.cursor \in 0..(screen.n - 1)) =>
        /\ screen.error = "none"
        /\ screen.start = (IF screen.cursor < screen.height
                           THEN 0 ELSE screen.cursor - screen.height + 1)
        /\ Len(screen.rows) =
              Min(screen.start + screen.height, screen.n) - screen.start
        /\ \A k \in 1..Len(screen.rows) :
              screen.rows[k] = screen.start + k - 1
        /\ screen.start <= screen.cursor
        /\ screen.cursor < screen.start + screen.height
        /\ \E k \in 1..Len(screen.rows) : screen.rows[k] = screen.cursor

\* C18 witness: a list longer than the viewport was rendered with the
\* cursor below the first window and above the last item.
C18_Witness ==
    /\ screen.rendered
    /\ screen.height >= 2
    /\ screen.cursor >= screen.height
    /\ screen.cursor < screen.n - 1
    /\ screen.start >= 1
    /\ Len(screen.rows) = screen.height

\* C19: when the viewport height is <= 0 the list render shows no rows, for
\* every list and every cursor position, and does not fail.
C19_NoRowsWithoutHeight ==
    (screen.rendered /\ screen.height <= 0) =>
        (screen.rows = <<>> /\ screen.error = "none")

\* C19 witness: a non-empty list with the cursor off the first item was
\* rendered into a viewport of negative height.
C19_Witness ==
    /\ screen.rendered
    /\ screen.height < 0
    /\ screen.n >= 2
    /\ screen.cursor >= 1
    /\ screen.rows = <<>>

\* C20: in the event loop a key event that the loop maps to no action (an
\* unmapped control key or an unmapped printable character) is rejected by
\* raising an error: the loop never goes on to the next event without one.
C20_UnmappedKeyRejected ==
    [][ (/\ pcMain = "handle"
         /\ event.type = "key"
         /\ \/ event.is_keys /\ event.key \notin MappedKeys \cup {"ControlM"}
            \/ ~event.is_keys /\ event.key # "q"
         /\ pcMain' # pcMain) =>
            (exc' # "none" /\ pcMain' # "get") ]_vars

\* C21: when a KeyboardInterrupt occurs at any point inside the session, the
\* session function returns None instead of raising, and by the time it
\* returns the terminal attributes and the previous signal handlers have
\* been restored.
C21_InterruptCancelsCleanly ==
    (pcMain = "done" /\ exc = "KeyboardInterrupt") =>
        /\ list_viewer(exc, result) = [raised |-> "none", value |-> "None"]
        /\ termAttrs = origAttrs
        /\ handlers = prevHandlers

\* C22: when stdin is not a terminal, so that reading the terminal
\* attributes fails, for_stdin fails without entering its body and leaves
\* no reader thread running that goes on consuming bytes from stdin.
C22_NoReaderWithoutTerminal ==
    exc = "termios.error" =>
        /\ pcMain \notin BodyPcs
        /\ renders = 0
        /\ readerPc \in {"idle", "dead"}

\* C23: after the for_stdin scope is left (normally, with the stop flag
\* set, or by an exception in the body) the reader thread terminates
\* whether or not input is pending on stdin: it is never left blocked in
\* os.read with nothing to read, where only further input lets it go on.
C23_ReaderNeverLeftBlocked ==
    StdinScopeLeft => ~(readerPc = "read" /\ stdin = <<>>)

\* the body of for_stdin's with statement is running: from the yield to the
\* finally clause
StdinScopeHeld == pcMain \in BodyPcs \cup {"die", "join", "restore"}

\* C24: while the for_stdin scope is held the terminal has ECHO, ICANON and
\* IEXTEN cleared in the local flags, IXON, IXOFF, ICRNL, INLCR and IGNCR
\* cleared in the input flags, and VMIN equal to 1.
C24_RawModeWhileHeld ==
    StdinScopeHeld =>
        /\ termAttrs.lflag \cap {"ECHO", "ICANON", "IEXTEN"} = {}
        /\ termAttrs.iflag \cap {"IXON", "IXOFF", "ICRNL", "INLCR", "IGNCR"} = {}
        /\ termAttrs.cc.VMIN = 1

\* C24 witness: the consumer handles an event on a terminal that had echo,
\* canonical mode, input translation and a VMIN other than 1 before.
C24_Witness ==
    /\ pcMain = "handle"
    /\ origAttrs.cc.VMIN # 1
    /\ {"ECHO", "ICANON", "IEXTEN"} \subseteq origAttrs.lflag
    /\ {"IXOFF", "INLCR", "IGNCR"} \subseteq origAttrs.iflag

\* C25: while the for_stdin scope is held the terminal does not turn
\* control characters typed by the user into signals (ISIG is off), so an
\* interrupt reaches the application only as an event on the queue, never
\* as a KeyboardInterrupt.
C25_NoSignalsFromKeys ==
    StdinScopeHeld =>
        /\ "ISIG" \notin termAttrs.lflag
        /\ exc # "KeyboardInterrupt"

\* the characters of the arrow-key escape sequence ESC [ A
UpSequence == <<"ESC", "[", "A">>

\* C26: the bytes ESC, '[', 'A', read one per read and fed to the decoder
\* one at a time, give exactly one Up key event for the queue and no event
\* for any proper prefix of the sequence.
C26_ArrowKeyIsOneEvent ==
    [][ (readerPc = "read" /\ readerPc' # "read"
         /\ decode(Head(stdin)) # "UnicodeDecodeError") =>
            LET fed == Append(prefix, decode(Head(stdin))) IN
            /\ IsStrictPrefix(fed, UpSequence) =>
                  (readerOut' = <<>> /\ prefix' = fed)
            /\ fed = UpSequence =>
                  (readerOut' = <<KeyPress("Up", TRUE)>> /\ prefix' = <<>>) ]_vars

\* C26 witness: the consumer handles the Up key event, the only event that
\* was put on the queue, after all three bytes were read.
C26_Witness ==
    /\ pcMain = "handle"
    /\ event = KeyPress("Up", TRUE)
    /\ putLog = <<KeyPress("Up", TRUE)>>
    /\ typed = 1 /\ stdin = <<>> /\ prefix = <<>>

\* C27: every byte read from stdin eventually results in a queued key event
\* even when no further input arrives: while the event loop runs and the
\* reader with it, bytes held by the decoder (a lone ESC, say) are
\* eventually flushed out of it, unless the session ends first or a signal
\* handler is holding up the main thread.
C27_PendingPrefixFlushed ==
    (prefix # <<>> /\ pcMain \in BodyPcs)
        ~> \/ prefix = <<>>
           \/ readerPc \in ReaderEnded
           \/ pcMain \notin BodyPcs
           \/ hPc # "none"

\* C28: in an interactive session the render is invoked exactly once before
\* the loop is entered and exactly once after each accepted event, a handled
\* key event or a resize signal event; no other step renders.
C28_RenderOncePerEvent ==
    [][ IF pcMain' = "get" /\ pcMain \in {"body", "handle"}
        THEN renders' = renders + 1
        ELSE renders' = renders ]_vars

\* C29: in the viewer of examples/list_view.py with a list that is not
\* empty, after any sequence of Up and Down key events the cursor indexes an
\* existing candidate: it is within 0..len(candidates)-1.
C29_ViewCursorIndexesCandidate ==
    view.pc \in {"start", "loop", "raised"} =>
        view.state.cursor \in 0..(Len(view.state.candidates) - 1)

\* C30: whatever byte is read from stdin, a byte >= 0x80 included, the
\* reader thread keeps running: it ends only because shutdown was requested
\* or the selector was closed, never with an exception of its own.
C30_ReaderSurvivesAnyByte ==
    /\ readerPc # "raised"
    /\ readerPc = "dead" => (die \/ selectorClosed)

\* the number of Signal events in a sequence of events
RECURSIVE SignalsIn(_)
SignalsIn(log) ==
    IF log = <<>> THEN 0
    ELSE (IF Head(log).type = "signal" THEN 1 ELSE 0) + SignalsIn(Tail(log))

\* C31: each delivery of a subscribed signal to the handler puts exactly one
\* Signal event, carrying that signal's number, on the queue passed to
\* for_signals, and does nothing else: every handler that was started
\* returns, the Signal events put are as many as the handlers that
\* returned, and the step that returns appends Signal(signum) to the queue
\* and changes nothing of the session but the queue.
C31_DeliveryPutsOneSignal ==
    /\ [](SignalsIn(putLog) + (IF hPc = "none" THEN 0 ELSE 1) = sigCount)
    /\ [][ (hPc # "none" /\ hPc' = "none") =>
              /\ queue' = Append(queue, Signal(SIGWINCH))
              /\ UNCHANGED <<mainVars, readerVars, inputVars, termVars,
                             listVars, signalVars, gotLog>> ]_vars
    /\ (hPc # "none") ~> (hPc = "none")

\* the application state of the list-select session
AppState == <<items, cursor>>

\* C32: the reader thread and the signal handler never modify application
\* state (cursor, items, selection): a step of theirs changes, of what is
\* shared, only the queue; every change to application state is made by the
\* consumer loop handling the event it pulled, before it pulls the next.
C32_OnlyConsumerChangesState ==
    [][ /\ (\/ readerPc # "idle" /\ <<readerPc, readerOut, prefix>>'
                                        # <<readerPc, readerOut, prefix>>
            \/ hPc' # hPc) =>
               UNCHANGED <<AppState, mainVars, die, selectorClosed, termVars,
                           signalVars, gotLog>>
        /\ AppState' # AppState =>
               /\ pcMain = "handle" /\ pcMain' = "get"
               /\ UNCHANGED <<readerVars, handlerVars, queueVars>> ]_vars

\* C32 witness: the reader thread has put a key press and the handler a
\* Signal, and the consumer has changed the state handling the key press.
C32_Witness ==
    /\ pcMain = "get"
    /\ AppState # <<Cursor_from_iterable(SessionItems), 0>>
    /\ SignalsIn(putLog) = 1
    /\ Len(putLog) = 2
    /\ hPc = "none" /\ readerPc \in {"loop", "select"}

C34_JumpsReachTheEnds ==
    Len(listOp.items) > 0 =>
        /\ listOp.op = "jump_to_top" =>
              /\ cursor = 0
              /\ items = listOp.items
              /\ Cursor_bump_up(items, cursor) = cursor
        /\ listOp.op = "jump_to_bottom" =>
              /\ cursor = Len(listOp.items) - 1
              /\ items = listOp.items
              /\ Cursor_bump_down(items, cursor) = cursor

\* C34 witness: jump_to_bottom took the cursor from the top to the last of
\* several items, one of them selected.
C34_Witness ==
    /\ listOp.op = "jump_to_bottom"
    /\ listOp.cursor = 0
    /\ Len(items) >= 3
    /\ cursor = Len(items) - 1
    /\ \E k \in 1..Len(items) : items[k].selected

\* C35: starting from TextCursor.empty(), after any sequence of insert,
\* remove_left, remove_right, remove_left_word, bump_left, bump_right,
\* jump_to_left, jump_to_right, bump_left_by_word and bump_right_by_word the
\* cursor is within 0..len(text).
C35_TextCursorInRange == tbox.cursor \in 0..Len(tbox.text)

\* C35 witness: remove_right deleted the last character of the text, which
\* leaves the cursor at the new end of the text.
C35_Witness ==
    /\ tbox.op = "remove_right"
    /\ tbox.before.cursor = Len(tbox.before.text) - 1
    /\ tbox.cursor = Len(tbox.text)
    /\ tbox.cursor > 0

\* the text without its k-th character (k counted from 1)
Without(text, k) == SubSeq(text, 1, k - 1) \o SubSeq(text, k + 1, Len(text))

\* C36: insert(c) of a single character c puts c at index cursor, keeps all
\* other characters in order and advances the cursor by one, and a
\* remove_left after it gives back the text and the cursor there were before.
C36_InsertThenRemoveLeft ==
    (tbox.op = "insert" /\ ~tbox.raised) =>
        LET b == tbox.before IN
        /\ Len(tbox.text) = Len(b.text) + 1
        /\ tbox.text[b.cursor + 1] = tbox.char[1]
        /\ Without(tbox.text, b.cursor + 1) = b.text
        /\ tbox.cursor = b.cursor + 1
        /\ TextCursor_remove_left(TextState) = b

\* C36 witness: a character was inserted between two different characters.
C36_Witness ==
    /\ tbox.op = "insert" /\ ~tbox.raised
    /\ tbox.before.cursor = 1 /\ Len(tbox.before.text) = 2
    /\ tbox.before.text[1] # tbox.before.text[2]
    /\ tbox.char[1] \notin {tbox.before.text[1], tbox.before.text[2]}

\* C37: remove_left with the cursor at 0 and remove_right with the cursor at
\* len(text) change neither text nor cursor; otherwise remove_right deletes
\* exactly the character at the cursor and does not move the cursor, and
\* remove_left deletes exactly the character before the cursor and moves the
\* cursor back by one.
C37_RemoveAtEdgesAndInside ==
    LET b == tbox.before IN
    /\ tbox.op = "remove_left" =>
          IF b.cursor = 0
          THEN TextState = b
          ELSE /\ tbox.text = Without(b.text, b.cursor)
               /\ tbox.cursor = b.cursor - 1
    /\ tbox.op = "remove_right" =>
          IF b.cursor = Len(b.text)
          THEN TextState = b
          ELSE /\ tbox.text = Without(b.text, b.cursor + 1)
               /\ tbox.cursor = b.cursor

\* C37 witness: remove_right deleted the middle one of three characters, the
\* cursor staying between the two that are left.
C37_Witness ==
    /\ tbox.op = "remove_right"
    /\ tbox.before.text = <<"a", " ", "b">> /\ tbox.before.cursor = 1
    /\ tbox.text = <<"a", "b">> /\ tbox.cursor = 1

\* C38: remove_left_word moves the cursor to the nearest word boundary
\* strictly left of it, or leaves it in place when there is none; it deletes
\* exactly the characters between the new and the old cursor and leaves the
\* text before the new cursor and from the old cursor onwards as it was, so
\* the text is shorter by old cursor minus new cursor.
C38_RemoveLeftWord ==
    tbox.op = "remove_left_word" =>
        LET b == tbox.before
            left == { i \in 0..(b.cursor - 1) : i \in word_boundaries(b.text) }
        IN /\ left = {} => tbox.cursor = b.cursor
           /\ left # {} => /\ tbox.cursor \in left
                           /\ \A j \in left : j <= tbox.cursor
           /\ tbox.text = SubSeq(b.text, 1, tbox.cursor)
                             \o SubSeq(b.text, b.cursor + 1, Len(b.text))
           /\ Len(tbox.text) = Len(b.text) - (b.cursor - tbox.cursor)

\* C38 witness: a word of two characters was deleted, with a blank before it
\* that stays.
C38_Witness ==
    /\ tbox.op = "remove_left_word"
    /\ tbox.before.text = <<" ", "a", "b">> /\ tbox.before.cursor = 3
    /\ tbox.text = <<" ">> /\ tbox.cursor = 1

\* the elements of a sequence
Range(seq) == { seq[i] : i \in 1..Len(seq) }

\* C39: in the fuzzy finder on a haystack that is not empty, after any
\* sequence of key events the selected set is a subset of the haystack and
\* the cursor is within 0..len(haystack)-1; Tab toggles the membership of
\* exactly the item shown at the cursor in the current ranking; typing,
\* Backspace and Control-U change only the needle and leave the selected set
\* and the cursor as they were.
C39_FuzzyFindKeys ==
    LET b == fzfOp.before
        shown == FuzzyFind_list_select(b)[b.cursor + 1].item
    IN /\ fzf.selected \subseteq Range(fzf.haystack)
       /\ fzf.cursor \in 0..(Len(fzf.haystack) - 1)
       /\ (fzfOp.is_keys /\ fzfOp.key = "ControlI") =>
             /\ fzf.selected = (b.selected \ {shown}) \cup ({shown} \ b.selected)
             /\ fzf = [b EXCEPT !.selected = fzf.selected]
       /\ (fzfOp.key # "none" /\ ~fzfOp.is_keys) =>
             fzf = [b EXCEPT !.needle = Append(b.needle, fzfOp.key)]
       /\ (fzfOp.is_keys /\ fzfOp.key = "ControlH") =>
             /\ fzf = [b EXCEPT !.needle = fzf.needle]
             /\ fzf.needle = SubSeq(b.needle, 1, Len(b.needle) - 1)
       /\ (fzfOp.is_keys /\ fzfOp.key = "ControlU") =>
             fzf = [b EXCEPT !.needle = <<>>]

\* C39 witness: with a needle that ranks the second word of the haystack
\* first, Tab at the top of the list selected that word.
C39_Witness ==
    /\ fzfOp.is_keys /\ fzfOp.key = "ControlI"
    /\ fzf.haystack = <<"q", "x">>
    /\ fzf.needle = <<"x">>
    /\ fzf.cursor = 0
    /\ fzf.selected = {"x"}

===========================================================================
